---- MODULE Spec2Model ----
(***************************************************************************)
(* Model of the convex-comments component: zones, threads, messages,       *)
(* reactions and typing indicators, with every public mutation modelled as *)
(* one atomic transaction (a Convex mutation commits whole or not at all). *)
(* Strings that the code scans (message bodies) are sequences of           *)
(* one-character strings; offsets are 0-based as in JavaScript.            *)
(***************************************************************************)
EXTENDS Integers, Sequences, FiniteSets, Bags, TLC

(***************************************************************************)
(* Bounds of the model.                                                    *)
(***************************************************************************)
MaxZones == 2
MaxThreads == 2
MaxMessages == 2
MaxReactions == 2
MaxTyping == 2
MaxScheduled == 2
MaxTicks == 1
StartTime == 1000
TickStep == 6000

(***************************************************************************)
(* Inputs the callers may supply.                                          *)
(***************************************************************************)
EntityIds == {"doc_1", "doc_2"}
Users == {"u1", "u2"}
Emojis == {"thumbsup", "heart"}

\* an optional value is the empty set (absent) or a singleton
None == {}
Some(x) == {x}

\* "hi."
BodyPlain == <<"h", "i", ".">>
\* "@u1 http://a.b."
BodyTokens == <<"@", "u", "1", " ", "h", "t", "t", "p", ":", "/", "/", "a", ".", "b", ".">>
Bodies == {BodyPlain, BodyTokens}

\* the body deleteMessage writes: "[deleted]"
DeletedBody == <<"[", "d", "e", "l", "e", "t", "e", "d", "]">>

(***************************************************************************)
(* Mention and link extraction.                                            *)
(***************************************************************************)
Lower == {"a", "b", "c", "d", "e", "f", "g", "h", "i", "j", "k", "l", "m",
          "n", "o", "p", "q", "r", "s", "t", "u", "v", "w", "x", "y", "z"}
Upper == {"A", "B", "C", "D", "E", "F", "G", "H", "I", "J", "K", "L", "M",
          "N", "O", "P", "Q", "R", "S", "T", "U", "V", "W", "X", "Y", "Z"}
Digits == {"0", "1", "2", "3", "4", "5", "6", "7", "8", "9"}

\* the class [a-zA-Z0-9_\-:] of mentionRegex
MentionChars == Lower \cup Upper \cup Digits \cup {"_", "-", ":"}

\* \s of the regular expressions
WhiteSpace == {" ", "\t", "\n", "\r"}

\* the characters [^\s<] excludes
LinkStop == WhiteSpace \cup {"<"}

\* the characters the last character class of urlRegex excludes
LinkEndStop == LinkStop \cup {".", ",", ":", ";", "\"", "'", ")", "]"}

\* last index e >= i-1 such that body[i..e] lies in the class (i-1: empty run)
RECURSIVE RunEnd(_, _, _)
RunEnd(body, i, class) ==
    IF i <= Len(body) /\ body[i] \in class THEN RunEnd(body, i + 1, class) ELSE i - 1

\* last index e >= i-1 such that no character of body[i..e] lies in the set
RECURSIVE RunEndNot(_, _, _)
RunEndNot(body, i, stop) ==
    IF i <= Len(body) /\ body[i] \notin stop THEN RunEndNot(body, i + 1, stop) ELSE i - 1

\* mentionRegex.exec loop from 1-based position i
RECURSIVE ScanMentions(_, _)
ScanMentions(body, i) ==
    IF i > Len(body) THEN <<>>
    ELSE IF body[i] = "@" /\ RunEnd(body, i + 1, MentionChars) > i
         THEN LET e == RunEnd(body, i + 1, MentionChars)
              IN  <<[userId |-> SubSeq(body, i + 1, e), start |-> i - 1, end |-> e]>>
                      \o ScanMentions(body, e + 1)
         ELSE ScanMentions(body, i + 1)

\* parseMentions that stops after the first match
parseMentions_FirstOnly(body) ==
    SubSeq(ScanMentions(body, 1), 1, IF ScanMentions(body, 1) = <<>> THEN 0 ELSE 1)

parseMentions(body) == ScanMentions(body, 1)

\* TRUE iff the sequence pat occurs in body at 1-based position i
MatchAt(body, i, pat) ==
    /\ i + Len(pat) - 1 <= Len(body)
    /\ SubSeq(body, i, i + Len(pat) - 1) = pat

\* index of the first character after "http://" or "https://" at i, 0 if neither
SchemeEnd(body, i) ==
    IF MatchAt(body, i, <<"h", "t", "t", "p", "s", ":", "/", "/">>) THEN i + 8
    ELSE IF MatchAt(body, i, <<"h", "t", "t", "p", ":", "/", "/">>) THEN i + 7
    ELSE 0

\* greatest e in lo..hi with body[e] outside LinkEndStop, 0 if none
\* (the backtracking of [^\s<]+ until the last class can match)
RECURSIVE BackTrack(_, _, _)
BackTrack(body, lo, hi) ==
    IF hi < lo THEN 0
    ELSE IF body[hi] \notin LinkEndStop THEN hi
    ELSE BackTrack(body, lo, hi - 1)

\* last index of the match of urlRegex that starts at i, 0 if it does not match
LinkEnd(body, i) ==
    LET p == SchemeEnd(body, i)
    IN  IF p = 0 THEN 0
        ELSE BackTrack(body, p + 1, RunEndNot(body, p, LinkStop))

\* urlRegex.exec loop from 1-based position i
RECURSIVE ScanLinks(_, _)
ScanLinks(body, i) ==
    IF i > Len(body) THEN <<>>
    ELSE IF LinkEnd(body, i) > 0
         THEN LET e == LinkEnd(body, i)
              IN  <<[url |-> SubSeq(body, i, e), start |-> i - 1, end |-> e]>>
                      \o ScanLinks(body, e + 1)
         ELSE ScanLinks(body, i + 1)

parseLinks(body) == ScanLinks(body, 1)

(***************************************************************************)
(* The store: one function per table, from document id to row.  Ids are    *)
(* allocated from per-table counters and never reused.                     *)
(***************************************************************************)
VARIABLES
    zones,              \* table "zones"
    threads,            \* table "threads"
    messages,           \* table "messages"
    reactions,          \* table "reactions"
    typingIndicators,   \* table "typingIndicators"
    scheduled,          \* bag of the run times of the pending cleanupExpiredIndicators jobs
    nextId,             \* next fresh id of each table
    now,                \* Date.now(), frozen during one mutation
    last,               \* the most recent call: its name, arguments and outcome
    client              \* the call of the client library in progress or last finished

store == <<zones, threads, messages, reactions, typingIndicators, scheduled, nextId>>
vars == <<zones, threads, messages, reactions, typingIndicators, scheduled, nextId, now,
          last, client>>

ZoneIds == 1..MaxZones
ThreadIds == 1..MaxThreads
MessageIds == 1..MaxMessages
ReactionIds == 1..MaxReactions
TypingIds == 1..MaxTyping

Position1 == [x |-> 10, y |-> 20]
Attachment1 == [type |-> "url", url |-> "u"]

\* a string argument is truthy in JavaScript unless it is empty
Truthy(opt) == opt # None /\ opt # Some("")

Insert(table, id, row) == table @@ (id :> row)
Remove(table, ids) == [i \in (DOMAIN table) \ ids |-> table[i]]
Patch(table, id, fields) ==
    [table EXCEPT ![id] = [f \in DOMAIN @ |-> IF f \in DOMAIN fields THEN fields[f] ELSE @[f]]]

Ok(op, args, ret) == [op |-> op, args |-> args, ok |-> TRUE, err |-> "", ret |-> ret]
Fail(op, args, err) == [op |-> op, args |-> args, ok |-> FALSE, err |-> err, ret |-> <<>>]

\* rows reached through the indexes the cascades use
ThreadsOfZone(zoneId) == {t \in DOMAIN threads : threads[t].zoneId = zoneId}
MessagesOfThread(threadId) == {m \in DOMAIN messages : messages[m].threadId = threadId}
ReactionsOfMessage(messageId) == {r \in DOMAIN reactions : reactions[r].messageId = messageId}
TypingOfThread(threadId) == {i \in DOMAIN typingIndicators : typingIndicators[i].threadId = threadId}

\* index messageId_emoji_userId, .first(): the row of lowest id among the matches
ReactionMatches(messageId, emoji, userId) ==
    {r \in DOMAIN reactions : /\ reactions[r].messageId = messageId
                              /\ reactions[r].emoji = emoji
                              /\ reactions[r].userId = userId}

\* index threadId_userId
TypingMatches(threadId, userId) ==
    {i \in DOMAIN typingIndicators : /\ typingIndicators[i].threadId = threadId
                                     /\ typingIndicators[i].userId = userId}

\* index entityId
ZoneMatches(entityId) == {z \in DOMAIN zones : zones[z].entityId = entityId}

First(ids) == CHOOSE i \in ids : \A j \in ids : i <= j

\* the ids of a query result in index order (ascending creation)
RECURSIVE AscById(_)
AscById(ids) ==
    IF ids = {} THEN <<>>
    ELSE <<First(ids)>> \o AscById(ids \ {First(ids)})

\* no call of the client library has been made; no callbacks are configured
ClientIdle ==
    [via |-> "none", fn |-> "none", args |-> <<>>, auth |-> "none", userId |-> None,
     callbacks |-> {}, stage |-> "idle", err |-> "", ret |-> <<>>, fired |-> <<>>]

Init ==
    /\ zones = <<>>
    /\ threads = <<>>
    /\ messages = <<>>
    /\ reactions = <<>>
    /\ typingIndicators = <<>>
    /\ scheduled = EmptyBag
    /\ nextId = [zones |-> 1, threads |-> 1, messages |-> 1, reactions |-> 1,
                 typingIndicators |-> 1]
    /\ now = StartTime
    /\ last = [op |-> "init", args |-> <<>>, ok |-> TRUE, err |-> "", ret |-> <<>>]
    /\ client = ClientIdle

\* the clock advances between transactions and never goes backwards
Tick ==
    /\ now + TickStep <= StartTime + MaxTicks * TickStep
    /\ now' = now + TickStep
    /\ UNCHANGED <<store, last, client>>

(***************************************************************************)
(* Zones                                                                   *)
(***************************************************************************)
\* getOrCreateZone that replaces the row it finds by a new one
getOrCreateZone_Reinserts(entityId, metadata) ==
    LET args == [entityId |-> entityId, metadata |-> metadata]
        existing == ZoneMatches(entityId)
        zoneId == nextId.zones
    IN  /\ zoneId <= MaxZones
        /\ zones' = Insert(Remove(zones, existing), zoneId,
               [entityId |-> entityId, metadata |-> metadata, createdAt |-> now])
        /\ nextId' = [nextId EXCEPT !.zones = @ + 1]
        /\ last' = Ok("getOrCreateZone", args, zoneId)
        /\ UNCHANGED <<threads, messages, reactions, typingIndicators, scheduled, now, client>>

\* getOrCreateZone without the lookup by entityId: always inserts
getOrCreateZone_NoLookup(entityId, metadata) ==
    LET args == [entityId |-> entityId, metadata |-> metadata]
        zoneId == nextId.zones
    IN  /\ zoneId <= MaxZones
        /\ zones' = Insert(zones, zoneId,
               [entityId |-> entityId, metadata |-> metadata, createdAt |-> now])
        /\ nextId' = [nextId EXCEPT !.zones = @ + 1]
        /\ last' = Ok("getOrCreateZone", args, zoneId)
        /\ UNCHANGED <<threads, messages, reactions, typingIndicators, scheduled, now, client>>

getOrCreateZone(entityId, metadata) ==
    LET args == [entityId |-> entityId, metadata |-> metadata]
        existing == ZoneMatches(entityId)
        zoneId == nextId.zones
    IN  IF existing # {}
        THEN /\ last' = Ok("getOrCreateZone", args, First(existing))
             /\ UNCHANGED <<store, now, client>>
        ELSE /\ zoneId <= MaxZones
             /\ zones' = Insert(zones, zoneId,
                    [entityId |-> entityId, metadata |-> metadata, createdAt |-> now])
             /\ nextId' = [nextId EXCEPT !.zones = @ + 1]
             /\ last' = Ok("getOrCreateZone", args, zoneId)
             /\ UNCHANGED <<threads, messages, reactions, typingIndicators, scheduled, now, client>>

updateZoneMetadata(zoneId, metadata) ==
    LET args == [zoneId |-> zoneId, metadata |-> metadata]
    IN  IF zoneId \notin DOMAIN zones
        THEN /\ last' = Fail("updateZoneMetadata", args, "StoreError")
             /\ UNCHANGED <<store, now, client>>
        ELSE /\ zones' = Patch(zones, zoneId, [metadata |-> Some(metadata)])
             /\ last' = Ok("updateZoneMetadata", args, <<>>)
             /\ UNCHANGED <<threads, messages, reactions, typingIndicators, scheduled,
                            nextId, now, client>>

\* deleteZone that counts the reactions of each message but deletes only the
\* messages, threads and the zone
deleteZone_KeepsReactions(zoneId) ==
    LET args == [zoneId |-> zoneId]
        ths == ThreadsOfZone(zoneId)
        msgs == UNION {MessagesOfThread(t) : t \in ths}
        reacts == UNION {ReactionsOfMessage(m) : m \in msgs}
        inds == UNION {TypingOfThread(t) : t \in ths}
    IN  /\ zoneId \in DOMAIN zones
        /\ messages' = Remove(messages, msgs)
        /\ typingIndicators' = Remove(typingIndicators, inds)
        /\ threads' = Remove(threads, ths)
        /\ zones' = Remove(zones, {zoneId})
        /\ last' = Ok("deleteZone", args,
               [deletedThreads |-> Cardinality(ths),
                deletedMessages |-> Cardinality(msgs),
                deletedReactions |-> Cardinality(reacts)])
        /\ UNCHANGED <<reactions, scheduled, nextId, now, client>>

deleteZone(zoneId) ==
    LET args == [zoneId |-> zoneId]
        ths == ThreadsOfZone(zoneId)
        msgs == UNION {MessagesOfThread(t) : t \in ths}
        reacts == UNION {ReactionsOfMessage(m) : m \in msgs}
        inds == UNION {TypingOfThread(t) : t \in ths}
    IN  IF zoneId \notin DOMAIN zones
        THEN \* ctx.db.delete of a missing document throws: the transaction rolls back
             /\ last' = Fail("deleteZone", args, "StoreError")
             /\ UNCHANGED <<store, now, client>>
        ELSE /\ reactions' = Remove(reactions, reacts)
             /\ messages' = Remove(messages, msgs)
             /\ typingIndicators' = Remove(typingIndicators, inds)
             /\ threads' = Remove(threads, ths)
             /\ zones' = Remove(zones, {zoneId})
             /\ last' = Ok("deleteZone", args,
                    [deletedThreads |-> Cardinality(ths),
                     deletedMessages |-> Cardinality(msgs),
                     deletedReactions |-> Cardinality(reacts)])
             /\ UNCHANGED <<scheduled, nextId, now, client>>

(***************************************************************************)
(* Threads                                                                 *)
(***************************************************************************)
\* addThread that stamps createdAt but leaves lastActivityAt at zero
addThread_NoActivityStamp(zoneId, position) ==
    LET args == [zoneId |-> zoneId, position |-> position]
        threadId == nextId.threads
    IN  /\ zoneId \in DOMAIN zones
        /\ threadId <= MaxThreads
        /\ threads' = Insert(threads, threadId,
               [zoneId |-> zoneId, resolved |-> FALSE, resolvedBy |-> None,
                resolvedAt |-> None, createdAt |-> now, lastActivityAt |-> 0,
                position |-> position, metadata |-> None])
        /\ nextId' = [nextId EXCEPT !.threads = @ + 1]
        /\ last' = Ok("addThread", args, threadId)
        /\ UNCHANGED <<zones, messages, reactions, typingIndicators, scheduled, now, client>>

addThread(zoneId, position) ==
    LET args == [zoneId |-> zoneId, position |-> position]
        threadId == nextId.threads
    IN  IF zoneId \notin DOMAIN zones
        THEN /\ last' = Fail("addThread", args, "NotFound")
             /\ UNCHANGED <<store, now, client>>
        ELSE /\ threadId <= MaxThreads
             /\ threads' = Insert(threads, threadId,
                    [zoneId |-> zoneId, resolved |-> FALSE, resolvedBy |-> None,
                     resolvedAt |-> None, createdAt |-> now, lastActivityAt |-> now,
                     position |-> position, metadata |-> None])
             /\ nextId' = [nextId EXCEPT !.threads = @ + 1]
             /\ last' = Ok("addThread", args, threadId)
             /\ UNCHANGED <<zones, messages, reactions, typingIndicators, scheduled, now, client>>

\* resolveThread that also stamps the thread's activity time
resolveThread_TouchesActivity(threadId, userId) ==
    LET args == [threadId |-> threadId, userId |-> userId]
    IN  IF threadId \notin DOMAIN threads
        THEN /\ last' = Fail("resolveThread", args, "NotFound")
             /\ UNCHANGED <<store, now, client>>
        ELSE /\ threads' = Patch(threads, threadId,
                    [resolved |-> TRUE, resolvedBy |-> Some(userId), resolvedAt |-> Some(now),
                     lastActivityAt |-> now])
             /\ last' = Ok("resolveThread", args, <<>>)
             /\ UNCHANGED <<zones, messages, reactions, typingIndicators, scheduled,
                            nextId, now, client>>

resolveThread(threadId, userId) ==
    LET args == [threadId |-> threadId, userId |-> userId]
    IN  IF threadId \notin DOMAIN threads
        THEN /\ last' = Fail("resolveThread", args, "NotFound")
             /\ UNCHANGED <<store, now, client>>
        ELSE /\ threads' = Patch(threads, threadId,
                    [resolved |-> TRUE, resolvedBy |-> Some(userId), resolvedAt |-> Some(now)])
             /\ last' = Ok("resolveThread", args, <<>>)
             /\ UNCHANGED <<zones, messages, reactions, typingIndicators, scheduled,
                            nextId, now, client>>

\* unresolveThread that clears the flag and keeps resolvedBy and resolvedAt
unresolveThread_KeepsStamp(threadId) ==
    LET args == [threadId |-> threadId]
    IN  /\ threadId \in DOMAIN threads
        /\ threads' = Patch(threads, threadId, [resolved |-> FALSE])
        /\ last' = Ok("unresolveThread", args, <<>>)
        /\ UNCHANGED <<zones, messages, reactions, typingIndicators, scheduled,
                       nextId, now, client>>

unresolveThread(threadId) ==
    LET args == [threadId |-> threadId]
    IN  IF threadId \notin DOMAIN threads
        THEN /\ last' = Fail("unresolveThread", args, "NotFound")
             /\ UNCHANGED <<store, now, client>>
        ELSE /\ threads' = Patch(threads, threadId,
                    [resolved |-> FALSE, resolvedBy |-> None, resolvedAt |-> None])
             /\ last' = Ok("unresolveThread", args, <<>>)
             /\ UNCHANGED <<zones, messages, reactions, typingIndicators, scheduled,
                            nextId, now, client>>

updateThreadPosition(threadId, position) ==
    LET args == [threadId |-> threadId, position |-> position]
    IN  IF threadId \notin DOMAIN threads
        THEN /\ last' = Fail("updateThreadPosition", args, "StoreError")
             /\ UNCHANGED <<store, now, client>>
        ELSE /\ threads' = Patch(threads, threadId, [position |-> position])
             /\ last' = Ok("updateThreadPosition", args, <<>>)
             /\ UNCHANGED <<zones, messages, reactions, typingIndicators, scheduled,
                            nextId, now, client>>

\* deleteThread that leaves the typing indicators of the thread in place
deleteThread_KeepsTyping(threadId) ==
    LET args == [threadId |-> threadId]
        msgs == MessagesOfThread(threadId)
        reacts == UNION {ReactionsOfMessage(m) : m \in msgs}
        inds == TypingOfThread(threadId)
    IN  IF threadId \notin DOMAIN threads
        THEN /\ last' = Fail("deleteThread", args, "StoreError")
             /\ UNCHANGED <<store, now, client>>
        ELSE /\ reactions' = Remove(reactions, reacts)
             /\ messages' = Remove(messages, msgs)
             /\ typingIndicators' = typingIndicators
             /\ threads' = Remove(threads, {threadId})
             /\ last' = Ok("deleteThread", args,
                    [deletedMessages |-> Cardinality(msgs),
                     deletedReactions |-> Cardinality(reacts)])
             /\ UNCHANGED <<zones, scheduled, nextId, now, client>>

deleteThread(threadId) ==
    LET args == [threadId |-> threadId]
        msgs == MessagesOfThread(threadId)
        reacts == UNION {ReactionsOfMessage(m) : m \in msgs}
        inds == TypingOfThread(threadId)
    IN  IF threadId \notin DOMAIN threads
        THEN /\ last' = Fail("deleteThread", args, "StoreError")
             /\ UNCHANGED <<store, now, client>>
        ELSE /\ reactions' = Remove(reactions, reacts)
             /\ messages' = Remove(messages, msgs)
             /\ typingIndicators' = Remove(typingIndicators, inds)
             /\ threads' = Remove(threads, {threadId})
             /\ last' = Ok("deleteThread", args,
                    [deletedMessages |-> Cardinality(msgs),
                     deletedReactions |-> Cardinality(reacts)])
             /\ UNCHANGED <<zones, scheduled, nextId, now, client>>

updateThreadActivity(threadId) ==
    LET args == [threadId |-> threadId]
    IN  IF threadId \notin DOMAIN threads
        THEN /\ last' = Fail("updateThreadActivity", args, "StoreError")
             /\ UNCHANGED <<store, now, client>>
        ELSE /\ threads' = Patch(threads, threadId, [lastActivityAt |-> now])
             /\ last' = Ok("updateThreadActivity", args, <<>>)
             /\ UNCHANGED <<zones, messages, reactions, typingIndicators, scheduled,
                            nextId, now, client>>

(***************************************************************************)
(* Messages                                                                *)
(***************************************************************************)
\* addComment that leaves the author's typing indicator in place
addComment_KeepsTyping(threadId, authorId, body, attachments) ==
    LET args == [threadId |-> threadId, authorId |-> authorId, body |-> body,
                 attachments |-> attachments]
        mentions == parseMentions(body)
        links == parseLinks(body)
        messageId == nextId.messages
    IN  IF threadId \notin DOMAIN threads
        THEN /\ last' = Fail("addComment", args, "NotFound")
             /\ UNCHANGED <<store, now, client>>
        ELSE /\ messageId <= MaxMessages
             /\ messages' = Insert(messages, messageId,
                    [threadId |-> threadId, authorId |-> authorId, body |-> body,
                     mentions |-> mentions, links |-> links,
                     attachments |-> IF attachments = None THEN <<>>
                                     ELSE CHOOSE a \in attachments : TRUE,
                     isEdited |-> FALSE, isDeleted |-> FALSE,
                     resolved |-> None, resolvedBy |-> None, resolvedAt |-> None,
                     createdAt |-> now, editedAt |-> None])
             /\ threads' = Patch(threads, threadId, [lastActivityAt |-> now])
             /\ typingIndicators' = typingIndicators
             /\ nextId' = [nextId EXCEPT !.messages = @ + 1]
             /\ last' = Ok("addComment", args,
                    [messageId |-> messageId, mentions |-> mentions, links |-> links])
             /\ UNCHANGED <<zones, reactions, scheduled, now, client>>

\* addComment that inserts the message without patching the thread
addComment_NoActivityPatch(threadId, authorId, body, attachments) ==
    LET args == [threadId |-> threadId, authorId |-> authorId, body |-> body,
                 attachments |-> attachments]
        mentions == parseMentions(body)
        links == parseLinks(body)
        messageId == nextId.messages
    IN  IF threadId \notin DOMAIN threads
        THEN /\ last' = Fail("addComment", args, "NotFound")
             /\ UNCHANGED <<store, now, client>>
        ELSE /\ messageId <= MaxMessages
             /\ messages' = Insert(messages, messageId,
                    [threadId |-> threadId, authorId |-> authorId, body |-> body,
                     mentions |-> mentions, links |-> links,
                     attachments |-> IF attachments = None THEN <<>>
                                     ELSE CHOOSE a \in attachments : TRUE,
                     isEdited |-> FALSE, isDeleted |-> FALSE,
                     resolved |-> None, resolvedBy |-> None, resolvedAt |-> None,
                     createdAt |-> now, editedAt |-> None])
             /\ typingIndicators' =
                    LET found == TypingMatches(threadId, authorId)
                    IN  IF found # {} THEN Remove(typingIndicators, {First(found)})
                        ELSE typingIndicators
             /\ nextId' = [nextId EXCEPT !.messages = @ + 1]
             /\ last' = Ok("addComment", args,
                    [messageId |-> messageId, mentions |-> mentions, links |-> links])
             /\ UNCHANGED <<zones, threads, reactions, scheduled, now, client>>

addComment(threadId, authorId, body, attachments) ==
    LET args == [threadId |-> threadId, authorId |-> authorId, body |-> body,
                 attachments |-> attachments]
        mentions == parseMentions(body)
        links == parseLinks(body)
        messageId == nextId.messages
    IN  IF threadId \notin DOMAIN threads
        THEN /\ last' = Fail("addComment", args, "NotFound")
             /\ UNCHANGED <<store, now, client>>
        ELSE /\ messageId <= MaxMessages
             /\ messages' = Insert(messages, messageId,
                    [threadId |-> threadId, authorId |-> authorId, body |-> body,
                     mentions |-> mentions, links |-> links,
                     attachments |-> IF attachments = None THEN <<>>
                                     ELSE CHOOSE a \in attachments : TRUE,
                     isEdited |-> FALSE, isDeleted |-> FALSE,
                     resolved |-> None, resolvedBy |-> None, resolvedAt |-> None,
                     createdAt |-> now, editedAt |-> None])
             /\ threads' = Patch(threads, threadId, [lastActivityAt |-> now])
             /\ typingIndicators' =
                    LET found == TypingMatches(threadId, authorId)
                    IN  IF found # {} THEN Remove(typingIndicators, {First(found)})
                        ELSE typingIndicators
             /\ nextId' = [nextId EXCEPT !.messages = @ + 1]
             /\ last' = Ok("addComment", args,
                    [messageId |-> messageId, mentions |-> mentions, links |-> links])
             /\ UNCHANGED <<zones, reactions, scheduled, now, client>>

\* editMessage that stores the new body with the old mentions and links
editMessage_StaleTokens(messageId, body, authorId) ==
    LET args == [messageId |-> messageId, body |-> body, authorId |-> authorId]
    IN  /\ messageId \in DOMAIN messages
        /\ ~messages[messageId].isDeleted
        /\ messages' = Patch(messages, messageId,
               [body |-> body, isEdited |-> TRUE, editedAt |-> Some(now)])
        /\ last' = Ok("editMessage", args,
               [mentions |-> messages[messageId].mentions, links |-> messages[messageId].links])
        /\ UNCHANGED <<zones, threads, reactions, typingIndicators, scheduled, nextId, now, client>>

editMessage(messageId, body, authorId) ==
    LET args == [messageId |-> messageId, body |-> body, authorId |-> authorId]
        mentions == parseMentions(body)
        links == parseLinks(body)
    IN  IF messageId \notin DOMAIN messages
        THEN /\ last' = Fail("editMessage", args, "NotFound")
             /\ UNCHANGED <<store, now, client>>
        ELSE IF messages[messageId].isDeleted
        THEN /\ last' = Fail("editMessage", args, "InvalidState")
             /\ UNCHANGED <<store, now, client>>
        ELSE IF Truthy(authorId) /\ Some(messages[messageId].authorId) # authorId
        THEN /\ last' = Fail("editMessage", args, "PermissionDenied")
             /\ UNCHANGED <<store, now, client>>
        ELSE /\ messages' = Patch(messages, messageId,
                    [body |-> body, mentions |-> mentions, links |-> links,
                     isEdited |-> TRUE, editedAt |-> Some(now)])
             /\ threads' = IF messages[messageId].threadId \in DOMAIN threads
                           THEN Patch(threads, messages[messageId].threadId,
                                      [lastActivityAt |-> now])
                           ELSE threads
             /\ last' = Ok("editMessage", args, [mentions |-> mentions, links |-> links])
             /\ UNCHANGED <<zones, reactions, typingIndicators, scheduled, nextId, now, client>>

deleteMessage(messageId, authorId) ==
    LET args == [messageId |-> messageId, authorId |-> authorId]
    IN  IF messageId \notin DOMAIN messages
        THEN /\ last' = Fail("deleteMessage", args, "NotFound")
             /\ UNCHANGED <<store, now, client>>
        ELSE IF Truthy(authorId) /\ Some(messages[messageId].authorId) # authorId
        THEN /\ last' = Fail("deleteMessage", args, "PermissionDenied")
             /\ UNCHANGED <<store, now, client>>
        ELSE /\ messages' = Patch(messages, messageId,
                    [isDeleted |-> TRUE, body |-> DeletedBody, mentions |-> <<>>,
                     links |-> <<>>, attachments |-> <<>>])
             /\ last' = Ok("deleteMessage", args, <<>>)
             /\ UNCHANGED <<zones, threads, reactions, typingIndicators, scheduled,
                            nextId, now, client>>

\* permanentlyDeleteMessage that deletes the message and leaves its reactions
permanentlyDeleteMessage_KeepsReactions(messageId) ==
    LET args == [messageId |-> messageId]
    IN  /\ messageId \in DOMAIN messages
        /\ messages' = Remove(messages, {messageId})
        /\ last' = Ok("permanentlyDeleteMessage", args, <<>>)
        /\ UNCHANGED <<zones, threads, reactions, typingIndicators, scheduled, nextId, now, client>>

permanentlyDeleteMessage(messageId) ==
    LET args == [messageId |-> messageId]
    IN  IF messageId \notin DOMAIN messages
        THEN /\ last' = Fail("permanentlyDeleteMessage", args, "StoreError")
             /\ UNCHANGED <<store, now, client>>
        ELSE /\ reactions' = Remove(reactions, ReactionsOfMessage(messageId))
             /\ messages' = Remove(messages, {messageId})
             /\ last' = Ok("permanentlyDeleteMessage", args, <<>>)
             /\ UNCHANGED <<zones, threads, typingIndicators, scheduled, nextId, now, client>>

\* resolveMessage without the check of isDeleted
resolveMessage_NoDeletedCheck(messageId, userId) ==
    LET args == [messageId |-> messageId, userId |-> userId]
    IN  /\ messageId \in DOMAIN messages
        /\ messages' = Patch(messages, messageId,
               [resolved |-> Some(TRUE), resolvedBy |-> Some(userId),
                resolvedAt |-> Some(now)])
        /\ last' = Ok("resolveMessage", args, <<>>)
        /\ UNCHANGED <<zones, threads, reactions, typingIndicators, scheduled, nextId, now, client>>

resolveMessage(messageId, userId) ==
    LET args == [messageId |-> messageId, userId |-> userId]
    IN  IF messageId \notin DOMAIN messages
        THEN /\ last' = Fail("resolveMessage", args, "NotFound")
             /\ UNCHANGED <<store, now, client>>
        ELSE IF messages[messageId].isDeleted
        THEN /\ last' = Fail("resolveMessage", args, "InvalidState")
             /\ UNCHANGED <<store, now, client>>
        ELSE /\ messages' = Patch(messages, messageId,
                    [resolved |-> Some(TRUE), resolvedBy |-> Some(userId),
                     resolvedAt |-> Some(now)])
             /\ last' = Ok("resolveMessage", args, <<>>)
             /\ UNCHANGED <<zones, threads, reactions, typingIndicators, scheduled,
                            nextId, now, client>>

unresolveMessage(messageId) ==
    LET args == [messageId |-> messageId]
    IN  IF messageId \notin DOMAIN messages
        THEN /\ last' = Fail("unresolveMessage", args, "NotFound")
             /\ UNCHANGED <<store, now, client>>
        ELSE /\ messages' = Patch(messages, messageId,
                    [resolved |-> None, resolvedBy |-> None, resolvedAt |-> None])
             /\ last' = Ok("unresolveMessage", args, <<>>)
             /\ UNCHANGED <<zones, threads, reactions, typingIndicators, scheduled,
                            nextId, now, client>>

(***************************************************************************)
(* Reactions                                                               *)
(***************************************************************************)
\* addReaction that touches the thread also when the reaction already exists
addReaction_RepeatTouchesThread(messageId, userId, emoji) ==
    LET args == [messageId |-> messageId, userId |-> userId, emoji |-> emoji]
        existing == ReactionMatches(messageId, emoji, userId)
        reactionId == nextId.reactions
    IN  IF messageId \notin DOMAIN messages
        THEN /\ last' = Fail("addReaction", args, "NotFound")
             /\ UNCHANGED <<store, now, client>>
        ELSE IF messages[messageId].isDeleted
        THEN /\ last' = Fail("addReaction", args, "InvalidState")
             /\ UNCHANGED <<store, now, client>>
        ELSE IF existing # {}
        THEN /\ threads' = Patch(threads, messages[messageId].threadId,
                                [lastActivityAt |-> now])
             /\ last' = Ok("addReaction", args, None)
             /\ UNCHANGED <<zones, messages, reactions, typingIndicators, scheduled,
                            nextId, now, client>>
        ELSE /\ reactionId <= MaxReactions
             /\ reactions' = Insert(reactions, reactionId,
                    [messageId |-> messageId, userId |-> userId, emoji |-> emoji,
                     createdAt |-> now])
             /\ threads' = IF messages[messageId].threadId \in DOMAIN threads
                           THEN Patch(threads, messages[messageId].threadId,
                                      [lastActivityAt |-> now])
                           ELSE threads
             /\ nextId' = [nextId EXCEPT !.reactions = @ + 1]
             /\ last' = Ok("addReaction", args, Some(reactionId))
             /\ UNCHANGED <<zones, messages, typingIndicators, scheduled, now, client>>

\* addReaction without the lookup of an existing row: always inserts
addReaction_NoExistingCheck(messageId, userId, emoji) ==
    LET args == [messageId |-> messageId, userId |-> userId, emoji |-> emoji]
        reactionId == nextId.reactions
    IN  /\ messageId \in DOMAIN messages
        /\ ~messages[messageId].isDeleted
        /\ reactionId <= MaxReactions
        /\ reactions' = Insert(reactions, reactionId,
               [messageId |-> messageId, userId |-> userId, emoji |-> emoji,
                createdAt |-> now])
        /\ threads' = IF messages[messageId].threadId \in DOMAIN threads
                      THEN Patch(threads, messages[messageId].threadId,
                                 [lastActivityAt |-> now])
                      ELSE threads
        /\ nextId' = [nextId EXCEPT !.reactions = @ + 1]
        /\ last' = Ok("addReaction", args, Some(reactionId))
        /\ UNCHANGED <<zones, messages, typingIndicators, scheduled, now, client>>

addReaction(messageId, userId, emoji) ==
    LET args == [messageId |-> messageId, userId |-> userId, emoji |-> emoji]
        existing == ReactionMatches(messageId, emoji, userId)
        reactionId == nextId.reactions
    IN  IF messageId \notin DOMAIN messages
        THEN /\ last' = Fail("addReaction", args, "NotFound")
             /\ UNCHANGED <<store, now, client>>
        ELSE IF messages[messageId].isDeleted
        THEN /\ last' = Fail("addReaction", args, "InvalidState")
             /\ UNCHANGED <<store, now, client>>
        ELSE IF existing # {}
        THEN /\ last' = Ok("addReaction", args, None)
             /\ UNCHANGED <<store, now, client>>
        ELSE /\ reactionId <= MaxReactions
             /\ reactions' = Insert(reactions, reactionId,
                    [messageId |-> messageId, userId |-> userId, emoji |-> emoji,
                     createdAt |-> now])
             /\ threads' = IF messages[messageId].threadId \in DOMAIN threads
                           THEN Patch(threads, messages[messageId].threadId,
                                      [lastActivityAt |-> now])
                           ELSE threads
             /\ nextId' = [nextId EXCEPT !.reactions = @ + 1]
             /\ last' = Ok("addReaction", args, Some(reactionId))
             /\ UNCHANGED <<zones, messages, typingIndicators, scheduled, now, client>>

removeReaction(messageId, userId, emoji) ==
    LET args == [messageId |-> messageId, userId |-> userId, emoji |-> emoji]
        found == ReactionMatches(messageId, emoji, userId)
    IN  IF found = {}
        THEN /\ last' = Ok("removeReaction", args, FALSE)
             /\ UNCHANGED <<store, now, client>>
        ELSE /\ reactions' = Remove(reactions, {First(found)})
             /\ last' = Ok("removeReaction", args, TRUE)
             /\ UNCHANGED <<zones, threads, messages, typingIndicators, scheduled,
                            nextId, now, client>>

\* toggleReaction that does not look at the message before toggling
toggleReaction_SkipsMessageChecks(messageId, userId, emoji) ==
    LET args == [messageId |-> messageId, userId |-> userId, emoji |-> emoji]
        existing == ReactionMatches(messageId, emoji, userId)
        reactionId == nextId.reactions
    IN  IF existing # {}
        THEN /\ reactions' = Remove(reactions, {First(existing)})
             /\ last' = Ok("toggleReaction", args, [added |-> FALSE, reactionId |-> None])
             /\ UNCHANGED <<zones, threads, messages, typingIndicators, scheduled,
                            nextId, now, client>>
        ELSE /\ reactionId <= MaxReactions
             /\ reactions' = Insert(reactions, reactionId,
                    [messageId |-> messageId, userId |-> userId, emoji |-> emoji,
                     createdAt |-> now])
             /\ threads' = IF /\ messageId \in DOMAIN messages
                              /\ messages[messageId].threadId \in DOMAIN threads
                           THEN Patch(threads, messages[messageId].threadId,
                                      [lastActivityAt |-> now])
                           ELSE threads
             /\ nextId' = [nextId EXCEPT !.reactions = @ + 1]
             /\ last' = Ok("toggleReaction", args,
                    [added |-> TRUE, reactionId |-> Some(reactionId)])
             /\ UNCHANGED <<zones, messages, typingIndicators, scheduled, now, client>>

\* toggleReaction that, finding the reaction, removes every reaction of the message
toggleReaction_RemovesAll(messageId, userId, emoji) ==
    LET args == [messageId |-> messageId, userId |-> userId, emoji |-> emoji]
        existing == ReactionMatches(messageId, emoji, userId)
        reactionId == nextId.reactions
    IN  IF messageId \notin DOMAIN messages
        THEN /\ last' = Fail("toggleReaction", args, "NotFound")
             /\ UNCHANGED <<store, now, client>>
        ELSE IF messages[messageId].isDeleted
        THEN /\ last' = Fail("toggleReaction", args, "InvalidState")
             /\ UNCHANGED <<store, now, client>>
        ELSE IF existing # {}
        THEN /\ reactions' = Remove(reactions, ReactionsOfMessage(messageId))
             /\ last' = Ok("toggleReaction", args, [added |-> FALSE, reactionId |-> None])
             /\ UNCHANGED <<zones, threads, messages, typingIndicators, scheduled,
                            nextId, now, client>>
        ELSE /\ reactionId <= MaxReactions
             /\ reactions' = Insert(reactions, reactionId,
                    [messageId |-> messageId, userId |-> userId, emoji |-> emoji,
                     createdAt |-> now])
             /\ threads' = IF messages[messageId].threadId \in DOMAIN threads
                           THEN Patch(threads, messages[messageId].threadId,
                                      [lastActivityAt |-> now])
                           ELSE threads
             /\ nextId' = [nextId EXCEPT !.reactions = @ + 1]
             /\ last' = Ok("toggleReaction", args,
                    [added |-> TRUE, reactionId |-> Some(reactionId)])
             /\ UNCHANGED <<zones, messages, typingIndicators, scheduled, now, client>>

\* toggleReaction that inserts the row without touching the thread
toggleReaction_NoActivity(messageId, userId, emoji) ==
    LET args == [messageId |-> messageId, userId |-> userId, emoji |-> emoji]
        reactionId == nextId.reactions
    IN  /\ messageId \in DOMAIN messages
        /\ ~messages[messageId].isDeleted
        /\ ReactionMatches(messageId, emoji, userId) = {}
        /\ reactionId <= MaxReactions
        /\ reactions' = Insert(reactions, reactionId,
               [messageId |-> messageId, userId |-> userId, emoji |-> emoji,
                createdAt |-> now])
        /\ nextId' = [nextId EXCEPT !.reactions = @ + 1]
        /\ last' = Ok("toggleReaction", args,
               [added |-> TRUE, reactionId |-> Some(reactionId)])
        /\ UNCHANGED <<zones, threads, messages, typingIndicators, scheduled, now, client>>

toggleReaction(messageId, userId, emoji) ==
    LET args == [messageId |-> messageId, userId |-> userId, emoji |-> emoji]
        existing == ReactionMatches(messageId, emoji, userId)
        reactionId == nextId.reactions
    IN  IF messageId \notin DOMAIN messages
        THEN /\ last' = Fail("toggleReaction", args, "NotFound")
             /\ UNCHANGED <<store, now, client>>
        ELSE IF messages[messageId].isDeleted
        THEN /\ last' = Fail("toggleReaction", args, "InvalidState")
             /\ UNCHANGED <<store, now, client>>
        ELSE IF existing # {}
        THEN /\ reactions' = Remove(reactions, {First(existing)})
             /\ last' = Ok("toggleReaction", args, [added |-> FALSE, reactionId |-> None])
             /\ UNCHANGED <<zones, threads, messages, typingIndicators, scheduled,
                            nextId, now, client>>
        ELSE /\ reactionId <= MaxReactions
             /\ reactions' = Insert(reactions, reactionId,
                    [messageId |-> messageId, userId |-> userId, emoji |-> emoji,
                     createdAt |-> now])
             /\ threads' = IF messages[messageId].threadId \in DOMAIN threads
                           THEN Patch(threads, messages[messageId].threadId,
                                      [lastActivityAt |-> now])
                           ELSE threads
             /\ nextId' = [nextId EXCEPT !.reactions = @ + 1]
             /\ last' = Ok("toggleReaction", args,
                    [added |-> TRUE, reactionId |-> Some(reactionId)])
             /\ UNCHANGED <<zones, messages, typingIndicators, scheduled, now, client>>

(***************************************************************************)
(* Typing indicators                                                       *)
(***************************************************************************)
TYPING_EXPIRY_MS == 5000
CLEANUP_BUFFER_MS == 1000

\* setIsTyping whose rows expire after twice TYPING_EXPIRY_MS
setIsTyping_DoubleExpiry(threadId, userId, isTyping) ==
    LET args == [threadId |-> threadId, userId |-> userId, isTyping |-> isTyping]
        expiresAt == now + TYPING_EXPIRY_MS + TYPING_EXPIRY_MS
        existing == TypingMatches(threadId, userId)
        indicatorId == nextId.typingIndicators
    IN  IF threadId \notin DOMAIN threads
        THEN /\ last' = Fail("setIsTyping", args, "NotFound")
             /\ UNCHANGED <<store, now, client>>
        ELSE IF isTyping
        THEN /\ BagCardinality(scheduled) < MaxScheduled
             /\ IF existing # {}
                THEN /\ typingIndicators' = Patch(typingIndicators, First(existing),
                            [updatedAt |-> now, expiresAt |-> expiresAt])
                     /\ UNCHANGED nextId
                ELSE /\ indicatorId <= MaxTyping
                     /\ typingIndicators' = Insert(typingIndicators, indicatorId,
                            [threadId |-> threadId, userId |-> userId,
                             updatedAt |-> now, expiresAt |-> expiresAt])
                     /\ nextId' = [nextId EXCEPT !.typingIndicators = @ + 1]
             /\ scheduled' = scheduled (+) SetToBag({now + TYPING_EXPIRY_MS + CLEANUP_BUFFER_MS})
             /\ last' = Ok("setIsTyping", args, <<>>)
             /\ UNCHANGED <<zones, threads, messages, reactions, now, client>>
        ELSE /\ typingIndicators' = IF existing # {}
                                    THEN Remove(typingIndicators, {First(existing)})
                                    ELSE typingIndicators
             /\ last' = Ok("setIsTyping", args, <<>>)
             /\ UNCHANGED <<zones, threads, messages, reactions, scheduled, nextId, now, client>>

\* setIsTyping that inserts a row without looking for the user's existing one
setIsTyping_NoExistingLookup(threadId, userId, isTyping) ==
    LET args == [threadId |-> threadId, userId |-> userId, isTyping |-> isTyping]
        indicatorId == nextId.typingIndicators
    IN  /\ threadId \in DOMAIN threads
        /\ isTyping
        /\ BagCardinality(scheduled) < MaxScheduled
        /\ indicatorId <= MaxTyping
        /\ typingIndicators' = Insert(typingIndicators, indicatorId,
               [threadId |-> threadId, userId |-> userId,
                updatedAt |-> now, expiresAt |-> now + TYPING_EXPIRY_MS])
        /\ nextId' = [nextId EXCEPT !.typingIndicators = @ + 1]
        /\ scheduled' = scheduled (+) SetToBag({now + TYPING_EXPIRY_MS + CLEANUP_BUFFER_MS})
        /\ last' = Ok("setIsTyping", args, <<>>)
        /\ UNCHANGED <<zones, threads, messages, reactions, now, client>>

setIsTyping(threadId, userId, isTyping) ==
    LET args == [threadId |-> threadId, userId |-> userId, isTyping |-> isTyping]
        expiresAt == now + TYPING_EXPIRY_MS
        existing == TypingMatches(threadId, userId)
        indicatorId == nextId.typingIndicators
    IN  IF threadId \notin DOMAIN threads
        THEN /\ last' = Fail("setIsTyping", args, "NotFound")
             /\ UNCHANGED <<store, now, client>>
        ELSE IF isTyping
        THEN /\ BagCardinality(scheduled) < MaxScheduled
             /\ IF existing # {}
                THEN /\ typingIndicators' = Patch(typingIndicators, First(existing),
                            [updatedAt |-> now, expiresAt |-> expiresAt])
                     /\ UNCHANGED nextId
                ELSE /\ indicatorId <= MaxTyping
                     /\ typingIndicators' = Insert(typingIndicators, indicatorId,
                            [threadId |-> threadId, userId |-> userId,
                             updatedAt |-> now, expiresAt |-> expiresAt])
                     /\ nextId' = [nextId EXCEPT !.typingIndicators = @ + 1]
             /\ scheduled' = scheduled (+) SetToBag({now + TYPING_EXPIRY_MS + CLEANUP_BUFFER_MS})
             /\ last' = Ok("setIsTyping", args, <<>>)
             /\ UNCHANGED <<zones, threads, messages, reactions, now, client>>
        ELSE /\ typingIndicators' = IF existing # {}
                                    THEN Remove(typingIndicators, {First(existing)})
                                    ELSE typingIndicators
             /\ last' = Ok("setIsTyping", args, <<>>)
             /\ UNCHANGED <<zones, threads, messages, reactions, scheduled, nextId, now, client>>

\* getTypingUsers that returns every row of the thread, expired or not
getTypingUsers_NoExpiry(threadId, excludeUserId) ==
    LET indicators == AscById(TypingOfThread(threadId))
    IN  [k \in 1..Len(indicators) |->
            [userId |-> typingIndicators[indicators[k]].userId,
             updatedAt |-> typingIndicators[indicators[k]].updatedAt]]

getTypingUsers(threadId, excludeUserId) ==
    LET indicators == AscById(TypingOfThread(threadId))
        keep(i) ==
            /\ ~(typingIndicators[i].expiresAt < now)
            /\ ~(Truthy(excludeUserId) /\ Some(typingIndicators[i].userId) = excludeUserId)
        kept == SelectSeq(indicators, keep)
    IN  [k \in 1..Len(kept) |->
            [userId |-> typingIndicators[kept[k]].userId,
             updatedAt |-> typingIndicators[kept[k]].updatedAt]]

\* a sweep that consumes its job and deletes nothing
cleanupExpiredIndicators_DeletesNothing ==
    \E t \in BagToSet(scheduled) :
        /\ t <= now
        /\ scheduled' = scheduled (-) SetToBag({t})
        /\ last' = Ok("cleanupExpiredIndicators", <<>>, 0)
        /\ UNCHANGED <<zones, threads, messages, reactions, typingIndicators, nextId, now, client>>

\* a sweep that also deletes the rows that expire at this very instant
cleanupExpiredIndicators_DeletesAtExpiry ==
    \E t \in BagToSet(scheduled) :
        LET expired == {i \in DOMAIN typingIndicators : typingIndicators[i].expiresAt <= now}
        IN  /\ t <= now
            /\ scheduled' = scheduled (-) SetToBag({t})
            /\ typingIndicators' = Remove(typingIndicators, expired)
            /\ last' = Ok("cleanupExpiredIndicators", <<>>, Cardinality(expired))
            /\ UNCHANGED <<zones, threads, messages, reactions, nextId, now, client>>

\* the scheduler runs a pending job once its run time has come
cleanupExpiredIndicators ==
    \E t \in BagToSet(scheduled) :
        LET expired == {i \in DOMAIN typingIndicators : typingIndicators[i].expiresAt < now}
        IN  /\ t <= now
            /\ scheduled' = scheduled (-) SetToBag({t})
            /\ typingIndicators' = Remove(typingIndicators, expired)
            /\ last' = Ok("cleanupExpiredIndicators", <<>>, Cardinality(expired))
            /\ UNCHANGED <<zones, threads, messages, reactions, nextId, now, client>>

clearUserTyping(userId) ==
    LET args == [userId |-> userId]
        mine == {i \in DOMAIN typingIndicators : typingIndicators[i].userId = userId}
    IN  /\ typingIndicators' = Remove(typingIndicators, mine)
        /\ last' = Ok("clearUserTyping", args, Cardinality(mine))
        /\ UNCHANGED <<zones, threads, messages, reactions, scheduled, nextId, now, client>>

\* the instants at which calls are made when expiry is observed: the start,
\* the last instant an indicator set at the start is live, the instant after
\* (at which a second indicator can be set), the sweep of the first, and the
\* last live instant, the instant after and the sweep of the second
Instants ==
    {StartTime,
     StartTime + TYPING_EXPIRY_MS,
     StartTime + TYPING_EXPIRY_MS + 1,
     StartTime + TYPING_EXPIRY_MS + CLEANUP_BUFFER_MS,
     StartTime + TYPING_EXPIRY_MS + 1 + TYPING_EXPIRY_MS,
     StartTime + TYPING_EXPIRY_MS + 1 + TYPING_EXPIRY_MS + 1,
     StartTime + TYPING_EXPIRY_MS + 1 + TYPING_EXPIRY_MS + CLEANUP_BUFFER_MS}

\* time passes to a later instant
Advance ==
    /\ \E t \in Instants : t > now /\ now' = t
    /\ UNCHANGED <<store, last, client>>

(***************************************************************************)
(* Queries.  A query reads the store and the clock and writes nothing; it  *)
(* is an operator on the state.  Optional arguments are None or Some(x).   *)
(***************************************************************************)
DigitChars == <<"0", "1", "2", "3", "4", "5", "6", "7", "8", "9">>

\* Number.prototype.toString of a non-negative integer: its decimal digits
RECURSIVE toString(_)
toString(n) ==
    IF n < 10 THEN <<DigitChars[n + 1]>>
    ELSE toString(n \div 10) \o <<DigitChars[(n % 10) + 1]>>

\* the value of a decimal digit
DigitValue(c) == (CHOOSE d \in 1..10 : DigitChars[d] = c) - 1

\* parseInt(text, 10) of a string of decimal digits
RECURSIVE parseInt(_)
parseInt(text) ==
    IF Len(text) = 1 THEN DigitValue(text[1])
    ELSE parseInt(SubSeq(text, 1, Len(text) - 1)) * 10 + DigitValue(text[Len(text)])

\* if (args.cursor): a string is truthy unless it is empty
CursorGiven(cursor) == cursor # None /\ cursor # Some(<<>>)

\* x ?? d
OrElse(opt, default) == IF opt = None THEN default ELSE CHOOSE x \in opt : TRUE

\* the ids in index order: ascending key, rows of equal key in creation order
RECURSIVE SortAsc(_, _)
SortAsc(ids, key) ==
    IF ids = {} THEN <<>>
    ELSE LET m == CHOOSE i \in ids :
                      \A j \in ids : key[i] < key[j] \/ (key[i] = key[j] /\ i <= j)
         IN  <<m>> \o SortAsc(ids \ {m}, key)

Reverse(seq) == [k \in 1..Len(seq) |-> seq[Len(seq) + 1 - k]]

\* .take(n) and .slice(0, n) for n >= 0
Take(seq, n) == SubSeq(seq, 1, IF n < Len(seq) THEN n ELSE Len(seq))

getReactionUsers(messageId, emoji) ==
    LET rows == AscById({r \in ReactionsOfMessage(messageId) : reactions[r].emoji = emoji})
    IN  [k \in 1..Len(rows) |-> reactions[rows[k]].userId]

getReactions(messageId, currentUserId) ==
    LET rows == AscById(ReactionsOfMessage(messageId))
        opens(r) == \A q \in ReactionsOfMessage(messageId) :
                        reactions[q].emoji = reactions[r].emoji => r <= q
        firsts == SelectSeq(rows, opens)
        users(k) == getReactionUsers(messageId, reactions[firsts[k]].emoji)
    IN  [k \in 1..Len(firsts) |->
            [emoji |-> reactions[firsts[k]].emoji,
             count |-> Len(users(k)),
             users |-> users(k),
             includesMe |-> /\ Truthy(currentUserId)
                            /\ \E j \in 1..Len(users(k)) : Some(users(k)[j]) = currentUserId]]

\* getMessages whose nextCursor is taken from the extra probe row
getMessages_CursorOfProbe(threadId, limit, cursor, order, currentUserId, includeDeleted) ==
    LET lim == OrElse(limit, 50)
        ord == OrElse(order, "asc")
        createdAt == [m \in DOMAIN messages |-> messages[m].createdAt]
        cursorTime == parseInt(OrElse(cursor, <<"0">>))
        range == IF ~CursorGiven(cursor) THEN MessagesOfThread(threadId)
                 ELSE IF ord = "asc"
                 THEN {m \in MessagesOfThread(threadId) : createdAt[m] > cursorTime}
                 ELSE {m \in MessagesOfThread(threadId) : createdAt[m] < cursorTime}
        indexed == IF ord = "asc" THEN SortAsc(range, createdAt)
                   ELSE Reverse(SortAsc(range, createdAt))
        fetched == Take(indexed, lim + 1)
        hasMore == Len(fetched) > lim
        result == Take(fetched, lim)
    IN  [messages |-> [k \in 1..Len(result) |->
                          [message |-> [_id |-> result[k]] @@ messages[result[k]],
                           reactions |-> <<>>]],
         nextCursor |-> IF hasMore
                        THEN Some(toString(messages[fetched[Len(fetched)]].createdAt))
                        ELSE None,
         hasMore |-> hasMore]

getMessages(threadId, limit, cursor, order, currentUserId, includeDeleted) ==
    LET lim == OrElse(limit, 50)
        ord == OrElse(order, "asc")
        incl == OrElse(includeDeleted, FALSE)
        createdAt == [m \in DOMAIN messages |-> messages[m].createdAt]
        cursorTime == parseInt(OrElse(cursor, <<"0">>))
        range == IF ~CursorGiven(cursor) THEN MessagesOfThread(threadId)
                 ELSE IF ord = "asc"
                 THEN {m \in MessagesOfThread(threadId) : createdAt[m] > cursorTime}
                 ELSE {m \in MessagesOfThread(threadId) : createdAt[m] < cursorTime}
        indexed == IF ord = "asc" THEN SortAsc(range, createdAt)
                   ELSE Reverse(SortAsc(range, createdAt))
        fetched == Take(indexed, lim + 1)
        live(m) == ~messages[m].isDeleted
        filtered == IF incl THEN fetched ELSE SelectSeq(fetched, live)
        hasMore == Len(filtered) > lim
        result == Take(filtered, lim)
    IN  [messages |-> [k \in 1..Len(result) |->
                          [message |-> [_id |-> result[k]] @@ messages[result[k]],
                           reactions |-> getReactions(result[k], currentUserId)]],
         nextCursor |-> IF hasMore /\ Len(result) > 0
                        THEN Some(toString(messages[result[Len(result)]].createdAt))
                        ELSE None,
         hasMore |-> hasMore]

\* getThreads that lists the zone in ascending lastActivityAt order
getThreads_OldestFirst(zoneId, limit, includeResolved, cursor) ==
    LET lim == OrElse(limit, 50)
        lastActivityAt == [t \in DOMAIN threads |-> threads[t].lastActivityAt]
        fetched == Take(SortAsc(ThreadsOfZone(zoneId), lastActivityAt), lim + 1)
        hasMore == Len(fetched) > lim
        result == Take(fetched, lim)
    IN  [threads |-> [k \in 1..Len(result) |->
                         [thread |-> [_id |-> result[k]] @@ threads[result[k]],
                          firstMessage |-> None, messageCount |-> 0]],
         nextCursor |-> IF hasMore /\ Len(result) > 0
                        THEN Some(toString(threads[result[Len(result)]].lastActivityAt))
                        ELSE None,
         hasMore |-> hasMore]

\* the rows getThreads reads from the index: limit + 1 rows past the cursor
ThreadWindow(zoneId, limit, cursor) ==
    LET lastActivityAt == [t \in DOMAIN threads |-> threads[t].lastActivityAt]
        cursorTime == parseInt(OrElse(cursor, <<"0">>))
        range == IF ~CursorGiven(cursor) THEN ThreadsOfZone(zoneId)
                 ELSE {t \in ThreadsOfZone(zoneId) : lastActivityAt[t] < cursorTime}
    IN  Take(Reverse(SortAsc(range, lastActivityAt)), OrElse(limit, 50) + 1)

\* getThreads whose cursor also admits the threads stamped at the cursor time
getThreads_CursorInclusive(zoneId, limit, includeResolved, cursor) ==
    LET lim == OrElse(limit, 50)
        incl == OrElse(includeResolved, TRUE)
        lastActivityAt == [t \in DOMAIN threads |-> threads[t].lastActivityAt]
        createdAt == [m \in DOMAIN messages |-> messages[m].createdAt]
        cursorTime == parseInt(OrElse(cursor, <<"0">>))
        range == IF ~CursorGiven(cursor) THEN ThreadsOfZone(zoneId)
                 ELSE {t \in ThreadsOfZone(zoneId) : lastActivityAt[t] <= cursorTime}
        fetched == Take(Reverse(SortAsc(range, lastActivityAt)), lim + 1)
        open(t) == ~threads[t].resolved
        filtered == IF incl THEN fetched ELSE SelectSeq(fetched, open)
        hasMore == Len(filtered) > lim
        result == Take(filtered, lim)
        preview(t) ==
            LET first == Take(SortAsc(MessagesOfThread(t), createdAt), 1)
            IN  [thread |-> [_id |-> t] @@ threads[t],
                 firstMessage |->
                     IF first = <<>> THEN None
                     ELSE Some([_id |-> first[1], body |-> messages[first[1]].body,
                                authorId |-> messages[first[1]].authorId,
                                createdAt |-> messages[first[1]].createdAt]),
                 messageCount |->
                     Cardinality({m \in MessagesOfThread(t) : ~messages[m].isDeleted})]
    IN  [threads |-> [k \in 1..Len(result) |-> preview(result[k])],
         nextCursor |-> IF hasMore /\ Len(result) > 0
                        THEN Some(toString(threads[result[Len(result)]].lastActivityAt))
                        ELSE None,
         hasMore |-> hasMore]

getThreads(zoneId, limit, includeResolved, cursor) ==
    LET lim == OrElse(limit, 50)
        incl == OrElse(includeResolved, TRUE)
        lastActivityAt == [t \in DOMAIN threads |-> threads[t].lastActivityAt]
        createdAt == [m \in DOMAIN messages |-> messages[m].createdAt]
        cursorTime == parseInt(OrElse(cursor, <<"0">>))
        range == IF ~CursorGiven(cursor) THEN ThreadsOfZone(zoneId)
                 ELSE {t \in ThreadsOfZone(zoneId) : lastActivityAt[t] < cursorTime}
        fetched == Take(Reverse(SortAsc(range, lastActivityAt)), lim + 1)
        open(t) == ~threads[t].resolved
        filtered == IF incl THEN fetched ELSE SelectSeq(fetched, open)
        hasMore == Len(filtered) > lim
        result == Take(filtered, lim)
        preview(t) ==
            LET first == Take(SortAsc(MessagesOfThread(t), createdAt), 1)
            IN  [thread |-> [_id |-> t] @@ threads[t],
                 firstMessage |->
                     IF first = <<>> THEN None
                     ELSE Some([_id |-> first[1], body |-> messages[first[1]].body,
                                authorId |-> messages[first[1]].authorId,
                                createdAt |-> messages[first[1]].createdAt]),
                 messageCount |->
                     Cardinality({m \in MessagesOfThread(t) : ~messages[m].isDeleted})]
    IN  [threads |-> [k \in 1..Len(result) |-> preview(result[k])],
         nextCursor |-> IF hasMore /\ Len(result) > 0
                        THEN Some(toString(threads[result[Len(result)]].lastActivityAt))
                        ELSE None,
         hasMore |-> hasMore]

(***************************************************************************)
(* Arguments the callers may supply.                                       *)
(***************************************************************************)
MetadataArgs == {None, Some("meta")}
PositionArgs == {None, Some(Position1)}
AttachmentArgs == {None, Some(<<Attachment1>>)}
AuthorArgs == {None, Some("")} \cup {Some(u) : u \in Users}

(***************************************************************************)
(* SpecZones: the zone registry under any interleaving of its mutations,   *)
(* with threads created in the zones so that deleteZone has a cascade.     *)
(***************************************************************************)
NextZones ==
    \/ Tick
    \/ \E e \in EntityIds, md \in MetadataArgs : getOrCreateZone(e, md)
    \/ \E z \in ZoneIds : updateZoneMetadata(z, "meta")
    \/ \E z \in ZoneIds : deleteZone(z)
    \/ \E z \in ZoneIds : addThread(z, None)

SpecZones == Init /\ [][NextZones]_vars

\* C1: under any interleaving of atomic getOrCreateZone calls (with deletes and
\* re-creations in between) there is at most one zone row per entityId, and
\* every getOrCreateZone call succeeds and returns the id of that single row.
C1_OneZonePerEntity ==
    /\ \A e \in EntityIds : Cardinality(ZoneMatches(e)) <= 1
    /\ last.op = "getOrCreateZone" =>
          /\ last.ok
          /\ ZoneMatches(last.args.entityId) = {last.ret}

\* a getOrCreateZone call has found the entity's zone (the row does not hold the
\* metadata the call supplied) and returned it
C1_Witness ==
    /\ last.op = "getOrCreateZone"
    /\ last.ok
    /\ last.ret \in DOMAIN zones
    /\ zones[last.ret].metadata # last.args.metadata

(***************************************************************************)
(* SpecMessage: the life of the messages of one thread.  Any caller may    *)
(* edit, soft-delete, hard-delete, resolve, unresolve and react at any     *)
(* time, also on a message that is soft-deleted or gone.                   *)
(***************************************************************************)
NextMessage ==
    \/ Tick
    \/ getOrCreateZone("doc_1", None)
    \/ threads = <<>> /\ addThread(1, None)
    \/ messages = <<>> /\ addComment(1, "u1", BodyTokens, Some(<<Attachment1>>))
    \/ \E m \in MessageIds, b \in Bodies : editMessage(m, b, None)
    \/ \E m \in MessageIds : deleteMessage(m, None)
    \/ \E m \in MessageIds : permanentlyDeleteMessage(m)
    \/ \E m \in MessageIds : resolveMessage(m, "u2")
    \/ \E m \in MessageIds : unresolveMessage(m)
    \/ \E m \in MessageIds : addReaction(m, "u2", "thumbsup")
    \/ \E m \in MessageIds : removeReaction(m, "u2", "thumbsup")
    \/ \E m \in MessageIds : toggleReaction(m, "u2", "thumbsup")

SpecMessage == Init /\ [][NextMessage]_vars

\* the fields of a message that C5 names
ContentOf(row) ==
    [body |-> row.body, mentions |-> row.mentions, links |-> row.links,
     attachments |-> row.attachments, isEdited |-> row.isEdited,
     editedAt |-> row.editedAt, resolved |-> row.resolved,
     resolvedBy |-> row.resolvedBy, resolvedAt |-> row.resolvedAt]

\* C5: once a message has isDeleted = TRUE, none of its fields (body, mentions,
\* links, attachments, isEdited, editedAt, resolved, resolvedBy, resolvedAt)
\* changes in any later state for as long as the row exists.
C5_SoftDeletedImmutable ==
    [][\A m \in DOMAIN messages :
          (messages[m].isDeleted /\ m \in DOMAIN messages')
              => ContentOf(messages'[m]) = ContentOf(messages[m])]_vars

ReactsOrEdits == {"editMessage", "resolveMessage", "addReaction", "toggleReaction"}

C7_TokensDerivedFromBody ==
    \A m \in DOMAIN messages :
        /\ messages[m].mentions = parseMentions(messages[m].body)
        /\ messages[m].links = parseLinks(messages[m].body)

\* a message posted with a mention and a link was edited to a body without them
C7_Witness ==
    /\ last.op = "editMessage"
    /\ last.ok
    /\ parseMentions(last.args.body) = <<>>
    /\ \E m \in DOMAIN messages :
          /\ messages[m].isEdited
          /\ messages[m].body = last.args.body
          /\ messages[m].mentions = <<>>

(***************************************************************************)
(* SpecReactions: the reactions on the messages of one thread, by any      *)
(* user with any emoji, interleaved with hard deletes.                     *)
(***************************************************************************)
NextReactions ==
    \/ getOrCreateZone("doc_1", None)
    \/ threads = <<>> /\ addThread(1, None)
    \/ addComment(1, "u1", BodyPlain, None)
    \/ \E m \in MessageIds : permanentlyDeleteMessage(m)
    \/ \E m \in MessageIds, u \in Users, e \in Emojis : addReaction(m, u, e)
    \/ \E m \in MessageIds, u \in Users, e \in Emojis : removeReaction(m, u, e)
    \/ \E m \in MessageIds, u \in Users, e \in Emojis : toggleReaction(m, u, e)

SpecReactions == Init /\ [][NextReactions]_vars

\* C2: in every reachable state there is at most one reaction row for each
\* (messageId, emoji, userId).
C2_OneReactionPerTriple ==
    \A m \in MessageIds, e \in Emojis, u \in Users :
        Cardinality(ReactionMatches(m, e, u)) <= 1

\* addReaction was called for a triple that already had its row, on a message
\* that holds a second reaction
C2_Witness ==
    /\ last.op = "addReaction"
    /\ last.ok
    /\ last.ret = None
    /\ ReactionMatches(last.args.messageId, last.args.emoji, last.args.userId) # {}
    /\ Cardinality(ReactionsOfMessage(last.args.messageId)) = 2

(***************************************************************************)
(* SpecCascade: two zones, their threads, messages, reactions and typing   *)
(* indicators, created and deleted in any order.                           *)
(***************************************************************************)
NextCascade ==
    \/ \E e \in EntityIds : getOrCreateZone(e, None)
    \/ \E z \in ZoneIds : addThread(z, None)
    \/ \E t \in ThreadIds : addComment(t, "u1", BodyPlain, None)
    \/ \E m \in MessageIds : addReaction(m, "u2", "thumbsup")
    \/ \E t \in ThreadIds : scheduled = EmptyBag /\ setIsTyping(t, "u2", TRUE)
    \/ \E z \in ZoneIds : deleteZone(z)
    \/ \E t \in ThreadIds : deleteThread(t)
    \/ \E m \in MessageIds : permanentlyDeleteMessage(m)

SpecCascade == Init /\ [][NextCascade]_vars

\* C3: in every reachable state every thread's zone, every message's thread,
\* every reaction's message and every typing indicator's thread exists.
C3_NoOrphans ==
    /\ \A t \in DOMAIN threads : threads[t].zoneId \in DOMAIN zones
    /\ \A m \in DOMAIN messages : messages[m].threadId \in DOMAIN threads
    /\ \A r \in DOMAIN reactions : reactions[r].messageId \in DOMAIN messages
    /\ \A i \in DOMAIN typingIndicators : typingIndicators[i].threadId \in DOMAIN threads

\* a message that had a reaction was hard-deleted while its thread, another
\* message and a typing indicator stay
C3_Witness ==
    /\ last.op = "permanentlyDeleteMessage"
    /\ last.ok
    /\ nextId.reactions > 1
    /\ reactions = <<>>
    /\ DOMAIN messages # {}
    /\ DOMAIN typingIndicators # {}

\* C4: a successful deleteZone returns the numbers of threads of the zone, of
\* messages of those threads and of reactions on those messages, and removes
\* exactly the zone, those rows and the typing indicators of those threads;
\* every other row is unchanged.
C4_DeleteZoneCascade ==
    [][\A z \in DOMAIN zones :
          (last'.op = "deleteZone" /\ last'.ok /\ last'.args.zoneId = z) =>
              LET ths == {t \in DOMAIN threads : threads[t].zoneId = z}
                  msgs == {m \in DOMAIN messages : messages[m].threadId \in ths}
                  reacts == {r \in DOMAIN reactions : reactions[r].messageId \in msgs}
                  inds == {i \in DOMAIN typingIndicators :
                              typingIndicators[i].threadId \in ths}
              IN  /\ last'.ret = [deletedThreads |-> Cardinality(ths),
                                  deletedMessages |-> Cardinality(msgs),
                                  deletedReactions |-> Cardinality(reacts)]
                  /\ zones' = [y \in DOMAIN zones \ {z} |-> zones[y]]
                  /\ threads' = [t \in DOMAIN threads \ ths |-> threads[t]]
                  /\ messages' = [m \in DOMAIN messages \ msgs |-> messages[m]]
                  /\ reactions' = [r \in DOMAIN reactions \ reacts |-> reactions[r]]
                  /\ typingIndicators' =
                        [i \in DOMAIN typingIndicators \ inds |-> typingIndicators[i]]]_vars

\* a zone with a thread, a message, a reaction and a typing indicator was
\* deleted while the other zone keeps its thread, message and reaction
C4_Witness ==
    /\ last.op = "deleteZone"
    /\ last.ok
    /\ last.ret = [deletedThreads |-> 1, deletedMessages |-> 1, deletedReactions |-> 1]
    /\ nextId.typingIndicators > 1
    /\ typingIndicators = <<>>
    /\ DOMAIN zones # {}
    /\ DOMAIN threads # {}
    /\ DOMAIN messages # {}
    /\ DOMAIN reactions # {}

(***************************************************************************)
(* SpecResolve: one thread and its message, resolved and unresolved by any *)
(* user at any time, also after the message is soft-deleted.               *)
(***************************************************************************)
NextResolve ==
    \/ Tick
    \/ getOrCreateZone("doc_1", None)
    \/ threads = <<>> /\ addThread(1, None)
    \/ messages = <<>> /\ addComment(1, "u1", BodyPlain, None)
    \/ \E t \in ThreadIds, u \in Users : resolveThread(t, u)
    \/ \E t \in ThreadIds : unresolveThread(t)
    \/ \E m \in MessageIds, u \in Users : resolveMessage(m, u)
    \/ \E m \in MessageIds : unresolveMessage(m)
    \/ \E m \in MessageIds : deleteMessage(m, None)

SpecResolve == Init /\ [][NextResolve]_vars

\* C8: after every step, every thread and every message has resolvedBy and
\* resolvedAt present exactly when it is resolved; a successful resolveThread or
\* resolveMessage leaves resolved true, resolvedBy = the caller's userId and
\* resolvedAt = the time of the call (also on a row that was already resolved);
\* a successful unresolveThread or unresolveMessage leaves all three cleared.
C8_ResolutionStamps ==
    [][/\ \A t \in DOMAIN threads' :
              /\ (threads'[t].resolvedBy # None) <=> threads'[t].resolved
              /\ (threads'[t].resolvedAt # None) <=> threads'[t].resolved
       /\ \A m \in DOMAIN messages' :
              /\ (messages'[m].resolvedBy # None) <=> (messages'[m].resolved = Some(TRUE))
              /\ (messages'[m].resolvedAt # None) <=> (messages'[m].resolved = Some(TRUE))
       /\ (now' = now /\ last'.ok /\ last'.op = "resolveThread") =>
              LET row == threads'[last'.args.threadId]
              IN  /\ row.resolved
                  /\ row.resolvedBy = Some(last'.args.userId)
                  /\ row.resolvedAt = Some(now)
       /\ (now' = now /\ last'.ok /\ last'.op = "resolveMessage") =>
              LET row == messages'[last'.args.messageId]
              IN  /\ row.resolved = Some(TRUE)
                  /\ row.resolvedBy = Some(last'.args.userId)
                  /\ row.resolvedAt = Some(now)
       /\ (now' = now /\ last'.ok /\ last'.op = "unresolveThread") =>
              LET row == threads'[last'.args.threadId]
              IN  /\ ~row.resolved
                  /\ row.resolvedBy = None
                  /\ row.resolvedAt = None
       /\ (now' = now /\ last'.ok /\ last'.op = "unresolveMessage") =>
              LET row == messages'[last'.args.messageId]
              IN  /\ row.resolved # Some(TRUE)
                  /\ row.resolvedBy = None
                  /\ row.resolvedAt = None]_vars

\* a message was resolved at a later time than, and by another user than, its
\* thread, which stays resolved with its own stamp
C8_Witness ==
    /\ last.op = "resolveMessage"
    /\ last.ok
    /\ messages[last.args.messageId].resolvedAt = Some(now)
    /\ \E t \in DOMAIN threads :
          /\ threads[t].resolved
          /\ threads[t].resolvedBy # Some(last.args.userId)
          /\ threads[t].resolvedAt = Some(StartTime)
          /\ now > StartTime

(***************************************************************************)
(* SpecActivity: one thread and its message; comments, edits, reactions    *)
(* and the other thread mutations at two different times.                  *)
(***************************************************************************)
NextActivity ==
    \/ Tick
    \/ getOrCreateZone("doc_1", None)
    \/ threads = <<>> /\ addThread(1, None)
    \/ messages = <<>> /\ addComment(1, "u1", BodyPlain, None)
    \/ \E m \in MessageIds : editMessage(m, BodyTokens, None)
    \/ \E m \in MessageIds : deleteMessage(m, None)
    \/ \E m \in MessageIds : addReaction(m, "u2", "thumbsup")
    \/ \E m \in MessageIds : removeReaction(m, "u2", "thumbsup")
    \/ \E m \in MessageIds : toggleReaction(m, "u2", "thumbsup")
    \/ \E t \in ThreadIds : updateThreadActivity(t)
    \/ \E t \in ThreadIds : resolveThread(t, "u1")
    \/ \E t \in ThreadIds : unresolveThread(t)
    \/ \E t \in ThreadIds : updateThreadPosition(t, Some(Position1))

SpecActivity == Init /\ [][NextActivity]_vars

\* the thread of the message a call was made on, after the call
ThreadAfter(call) == threads'[messages'[call.args.messageId].threadId]

\* a reaction row was inserted by the call
ReactionInserted(call) ==
    \/ call.op = "addReaction" /\ call.ret # None
    \/ call.op = "toggleReaction" /\ call.ret.added

\* a reaction row was removed by the call
ReactionRemoved(call) ==
    \/ call.op = "removeReaction" /\ call.ret = TRUE
    \/ call.op = "toggleReaction" /\ ~call.ret.added

\* C9 as stated: every successful addComment, editMessage and reaction event
\* (a row added, or a row removed by removeReaction or by toggleReaction
\* returning added = false) leaves the thread's lastActivityAt equal to the
\* time of the call.
C9_ActivityOnEveryEvent ==
    [][(now' = now /\ last'.ok) =>
          /\ last'.op = "addComment" =>
                 threads'[last'.args.threadId].lastActivityAt = now
          /\ last'.op = "editMessage" => ThreadAfter(last').lastActivityAt = now
          /\ ReactionInserted(last') => ThreadAfter(last').lastActivityAt = now
          /\ ReactionRemoved(last') => ThreadAfter(last').lastActivityAt = now]_vars

\* C9: every successful addComment, editMessage and reaction insert (addReaction
\* returning an id, toggleReaction returning added = true) leaves the thread's
\* lastActivityAt equal to the time of the call; removing a reaction
\* (removeReaction returning true, toggleReaction returning added = false)
\* leaves every thread row as it was.
C9_ActivityOnInsertOnly ==
    [][(now' = now /\ last'.ok) =>
          /\ last'.op = "addComment" =>
                 threads'[last'.args.threadId].lastActivityAt = now
          /\ last'.op = "editMessage" => ThreadAfter(last').lastActivityAt = now
          /\ ReactionInserted(last') => ThreadAfter(last').lastActivityAt = now
          /\ ReactionRemoved(last') => threads' = threads]_vars

\* a reaction added at the start time was toggled off later, and the thread's
\* lastActivityAt is still the earlier time
C9_Witness ==
    /\ last.op = "toggleReaction"
    /\ last.ok
    /\ ~last.ret.added
    /\ last.args.messageId \in DOMAIN messages
    /\ threads[messages[last.args.messageId].threadId].lastActivityAt < now

\* C10: after every step every thread has lastActivityAt >= createdAt; a
\* successful addThread leaves the new thread with createdAt = lastActivityAt =
\* the time of the call; and no step changes a thread's createdAt or lowers its
\* lastActivityAt.
C10_ActivityNotBeforeCreation ==
    [][/\ \A t \in DOMAIN threads' :
              threads'[t].lastActivityAt >= threads'[t].createdAt
       /\ \A t \in DOMAIN threads \cap DOMAIN threads' :
              /\ threads'[t].createdAt = threads[t].createdAt
              /\ threads'[t].lastActivityAt >= threads[t].lastActivityAt
       /\ (now' = now /\ last'.ok /\ last'.op = "addThread") =>
              /\ threads'[last'.ret].createdAt = now
              /\ threads'[last'.ret].lastActivityAt = now]_vars

\* a thread created at the start time has had its activity raised by a later
\* updateThreadActivity
C10_Witness ==
    /\ last.op = "updateThreadActivity"
    /\ last.ok
    /\ threads[last.args.threadId].createdAt = StartTime
    /\ threads[last.args.threadId].lastActivityAt > StartTime

(***************************************************************************)
(* SpecTyping: the typing indicators of one thread.  Users                 *)
(* start typing up to LastTypingStart, and stop, post, disconnect or lose  *)
(* the thread at any time; the scheduler runs each sweep at or after its   *)
(* run time.                                                               *)
(***************************************************************************)
LastTypingStart == StartTime + TYPING_EXPIRY_MS + 1

NextTyping ==
    \/ Advance
    \/ getOrCreateZone("doc_1", None)
    \/ nextId.threads = 1 /\ addThread(1, None)
    \/ \E t \in ThreadIds, u \in Users :
          now <= LastTypingStart /\ setIsTyping(t, u, TRUE)
    \/ \E t \in ThreadIds, u \in Users : setIsTyping(t, u, FALSE)
    \/ \E t \in ThreadIds : messages = <<>> /\ addComment(t, "u1", BodyPlain, None)
    \/ cleanupExpiredIndicators
    \/ \E u \in Users : clearUserTyping(u)
    \/ \E t \in ThreadIds : deleteThread(t)

SpecTyping == Init /\ [][NextTyping]_vars

\* C11: in every reachable state there is at most one typing-indicator row per
\* (threadId, userId).
C11_OneIndicatorPerUser ==
    \A t \in ThreadIds, u \in Users : Cardinality(TypingMatches(t, u)) <= 1

\* a user who was already typing in a thread called setIsTyping(true) again
\* later: two calls are scheduled, and one row was ever inserted
C11_Witness ==
    /\ last.op = "setIsTyping"
    /\ last.ok
    /\ last.args.isTyping
    /\ BagCardinality(scheduled) = 2
    /\ nextId.typingIndicators = 2
    /\ \E i \in DOMAIN typingIndicators :
          /\ typingIndicators[i].userId = last.args.userId
          /\ typingIndicators[i].updatedAt = now
          /\ now > StartTime

\* the users getTypingUsers lists for a thread
TypingNow(threadId) ==
    {getTypingUsers(threadId, None)[k].userId :
        k \in 1..Len(getTypingUsers(threadId, None))}

SpecTypingLive ==
    /\ Init
    /\ [][NextTyping]_vars
    /\ WF_vars(Advance)
    /\ WF_vars(cleanupExpiredIndicators)

\* C13: every typing-indicator row has a pending sweep scheduled after its
\* expiresAt; when no sweep is pending no row with expiresAt in the past
\* remains; and, users no longer refreshing after LastTypingStart, every row is
\* eventually physically deleted.
C13_IndicatorsEventuallySwept ==
    /\ [](\A i \in DOMAIN typingIndicators :
              \E t \in BagToSet(scheduled) : t > typingIndicators[i].expiresAt)
    /\ [](scheduled = EmptyBag =>
              \A i \in DOMAIN typingIndicators : ~(typingIndicators[i].expiresAt < now))
    /\ \A i \in TypingIds :
          (i \in DOMAIN typingIndicators) ~> (i \notin DOMAIN typingIndicators)

\* two rows were set at different times; the sweep of the first has run, and
\* now the last pending sweep has run and deleted the second
C13_Witness ==
    /\ last.op = "cleanupExpiredIndicators"
    /\ last.ret = 1
    /\ nextId.typingIndicators = 3
    /\ scheduled = EmptyBag
    /\ typingIndicators = <<>>

(***************************************************************************)
(* SpecMessagePages: a thread that holds up to MaxPaged messages, posted   *)
(* one after the other in the same or in the next millisecond.  Callers    *)
(* soft-delete messages and list the thread page by page, each call        *)
(* starting afresh or passing the cursor the call before returned.         *)
(***************************************************************************)
MaxPaged == 5
MaxLimit == 3

Limits == 0..MaxLimit
Orders == {"asc", "desc"}

\* the message addComment(1, "u1", BodyPlain) inserts at time createdAt
PostedAt(createdAt) ==
    [threadId |-> 1, authorId |-> "u1", body |-> BodyPlain,
     mentions |-> parseMentions(BodyPlain), links |-> parseLinks(BodyPlain),
     attachments |-> <<>>, isEdited |-> FALSE, isDeleted |-> FALSE,
     resolved |-> None, resolvedBy |-> None, resolvedAt |-> None,
     createdAt |-> createdAt, editedAt |-> None]

\* the store after getOrCreateZone, addThread and n addComment calls, the k-th
\* comment posted gap[k] milliseconds after the one before
InitMessagePages ==
    \E n \in 0..MaxPaged :
        \E gap \in [2..n -> {0, 1}] :
            LET at == [m \in 1..n |->
                          StartTime + Cardinality({k \in 2..m : gap[k] = 1})]
                end == IF n = 0 THEN StartTime ELSE at[n]
            IN  /\ zones = 1 :> [entityId |-> "doc_1", metadata |-> None,
                                 createdAt |-> StartTime]
                /\ threads = 1 :> [zoneId |-> 1, resolved |-> FALSE, resolvedBy |-> None,
                                   resolvedAt |-> None, createdAt |-> StartTime,
                                   lastActivityAt |-> end, position |-> None,
                                   metadata |-> None]
                /\ messages = [m \in 1..n |-> PostedAt(at[m])]
                /\ reactions = <<>>
                /\ typingIndicators = <<>>
                /\ scheduled = EmptyBag
                /\ nextId = [zones |-> 2, threads |-> 2, messages |-> n + 1,
                             reactions |-> 1, typingIndicators |-> 1]
                /\ now = end
                /\ last = [op |-> "init", args |-> <<>>, ok |-> TRUE, err |-> "",
                           ret |-> <<>>]
                /\ client = ClientIdle

\* a client calls the getMessages query
callGetMessages(threadId, limit, cursor, order, includeDeleted) ==
    /\ last' = Ok("getMessages",
                  [threadId |-> threadId, limit |-> limit, cursor |-> cursor,
                   order |-> order, includeDeleted |-> includeDeleted],
                  getMessages(threadId, limit, cursor, order, None, includeDeleted))
    /\ UNCHANGED <<store, now, client>>

\* a client calls the getThreads query
callGetThreads(zoneId, limit, includeResolved, cursor) ==
    /\ last' = Ok("getThreads",
                  [zoneId |-> zoneId, limit |-> limit,
                   includeResolved |-> includeResolved, cursor |-> cursor],
                  getThreads(zoneId, limit, includeResolved, cursor))
    /\ UNCHANGED <<store, now, client>>

NextMessagePages ==
    \/ \E m \in 1..MaxPaged :
          (\A d \in DOMAIN messages : ~messages[d].isDeleted) /\ deleteMessage(m, None)
    \/ \E l \in Limits, o \in Orders, d \in {None, Some(TRUE)} :
          callGetMessages(1, Some(l), None, Some(o), d)
    \/ /\ last.op = "getMessages"
       /\ last.ret.nextCursor # None
       /\ callGetMessages(1, last.args.limit, last.ret.nextCursor, last.args.order,
                          last.args.includeDeleted)
    \/ \E l \in Limits : callGetThreads(1, Some(l), None, None)

SpecMessagePages == InitMessagePages /\ [][NextMessagePages]_vars

\* the pages a client gets by calling getMessages and following nextCursor
RECURSIVE MessagePages(_, _, _, _)
MessagePages(threadId, limit, order, cursor) ==
    LET page == getMessages(threadId, Some(limit), cursor, Some(order), None, None)
    IN  IF page.hasMore /\ page.nextCursor # None
        THEN <<page>> \o MessagePages(threadId, limit, order, page.nextCursor)
        ELSE <<page>>

\* the message ids of a sequence of pages, in the order returned
RECURSIVE PagedIds(_)
PagedIds(pages) ==
    IF pages = <<>> THEN <<>>
    ELSE [k \in 1..Len(pages[1].messages) |-> pages[1].messages[k].message._id]
            \o PagedIds(Tail(pages))

\* C14: for a thread whose messages have pairwise distinct createdAt and none
\* is soft-deleted, and for every limit >= 1 and direction, the pages got by
\* following nextCursor until hasMore = false hold every message of the thread
\* exactly once in createdAt order of the direction; every page but the last
\* holds exactly limit messages with hasMore = true.
C14_PagesCoverThread ==
    \A t \in DOMAIN threads, l \in 1..MaxLimit, o \in Orders :
        (/\ \A m1, m2 \in MessagesOfThread(t) :
                m1 # m2 => messages[m1].createdAt # messages[m2].createdAt
         /\ \A m \in MessagesOfThread(t) : ~messages[m].isDeleted)
            => LET pages == MessagePages(t, l, o, None)
                   byTime == SortAsc(MessagesOfThread(t),
                                     [m \in DOMAIN messages |-> messages[m].createdAt])
               IN  /\ PagedIds(pages) = IF o = "asc" THEN byTime ELSE Reverse(byTime)
                   /\ \A k \in 1..(Len(pages) - 1) :
                          /\ Len(pages[k].messages) = l
                          /\ pages[k].hasMore
                   /\ ~pages[Len(pages)].hasMore

\* five messages posted at five different times were listed with limit 3, and
\* the call that passed the cursor of the first page returned the other two
C14_Witness ==
    /\ last.op = "getMessages"
    /\ last.args.limit = Some(3)
    /\ last.args.cursor # None
    /\ Len(last.ret.messages) = 2
    /\ ~last.ret.hasMore
    /\ Cardinality(DOMAIN messages) = 5
    /\ \A m1, m2 \in DOMAIN messages :
          m1 # m2 => messages[m1].createdAt # messages[m2].createdAt
    /\ \A m \in DOMAIN messages : ~messages[m].isDeleted

\* the cursors a caller may hold: none, or the createdAt of a message
MessageCursors == {None} \cup {Some(toString(messages[m].createdAt)) : m \in DOMAIN messages}

\* the cursors a caller may hold: none, or the lastActivityAt of a thread
ThreadCursors == {None} \cup {Some(toString(threads[t].lastActivityAt)) : t \in DOMAIN threads}

\* nextCursor is present exactly when hasMore, and is then the text of `at`
CursorMatches(page, rows, at) ==
    /\ (page.nextCursor # None) <=> page.hasMore
    /\ page.hasMore =>
          /\ Len(rows) > 0
          /\ page.nextCursor = Some(toString(at))

\* C15: for every getMessages and getThreads call with any limit, nextCursor is
\* present exactly when hasMore is true, and is then the ordering timestamp
\* (createdAt, lastActivityAt) of the last row returned on the page.
C15_CursorIffHasMore ==
    /\ \A t \in DOMAIN threads, l \in Limits, o \in Orders, d \in {None, Some(TRUE)},
          c \in MessageCursors :
          LET page == getMessages(t, Some(l), c, Some(o), None, d)
              n == Len(page.messages)
          IN  CursorMatches(page, page.messages,
                            IF n = 0 THEN 0 ELSE page.messages[n].message.createdAt)
    /\ \A z \in DOMAIN zones, l \in Limits, r \in {None, Some(FALSE)}, c \in ThreadCursors :
          LET page == getThreads(z, Some(l), r, c)
              n == Len(page.threads)
          IN  CursorMatches(page, page.threads,
                            IF n = 0 THEN 0 ELSE page.threads[n].thread.lastActivityAt)

(***************************************************************************)
(* SpecThreadPages: a zone that holds up to MaxPagedThreads threads, added *)
(* one after the other in the same or in the next millisecond, and a       *)
(* second zone with one thread.  Callers resolve threads, post, edit,      *)
(* soft-delete and react, and list the zones.                              *)
(***************************************************************************)
MaxPagedThreads == 3

\* the thread addThread(zoneId) inserts at time createdAt
CreatedAt(zoneId, createdAt) ==
    [zoneId |-> zoneId, resolved |-> FALSE, resolvedBy |-> None, resolvedAt |-> None,
     createdAt |-> createdAt, lastActivityAt |-> createdAt, position |-> None,
     metadata |-> None]

\* the store after two getOrCreateZone calls, n addThread calls on the first
\* zone and one on the second, the k-th thread added gap[k] milliseconds after
\* the one before
InitThreadPages ==
    \E n \in 0..MaxPagedThreads :
        \E gap \in [2..(n + 1) -> {0, 1}] :
            LET at == [t \in 1..(n + 1) |->
                          StartTime + Cardinality({k \in 2..t : gap[k] = 1})]
            IN  /\ zones = [z \in 1..2 |->
                              [entityId |-> IF z = 1 THEN "doc_1" ELSE "doc_2",
                               metadata |-> None, createdAt |-> StartTime]]
                /\ threads = [t \in 1..(n + 1) |->
                                CreatedAt(IF t <= n THEN 1 ELSE 2, at[t])]
                /\ messages = <<>>
                /\ reactions = <<>>
                /\ typingIndicators = <<>>
                /\ scheduled = EmptyBag
                /\ nextId = [zones |-> 3, threads |-> n + 2, messages |-> 1,
                             reactions |-> 1, typingIndicators |-> 1]
                /\ now = at[n + 1]
                /\ last = [op |-> "init", args |-> <<>>, ok |-> TRUE, err |-> "",
                           ret |-> <<>>]
                /\ client = ClientIdle

NextThreadPages ==
    \/ \E t \in 1..MaxPagedThreads :
          (\A u \in DOMAIN threads : ~threads[u].resolved) /\ resolveThread(t, "u1")
    \/ \E t \in 1..MaxPagedThreads : addComment(t, "u1", BodyPlain, None)
    \/ editMessage(1, BodyTokens, None)
    \/ deleteMessage(1, None)
    \/ addReaction(1, "u2", "thumbsup")
    \/ \E r \in {None, Some(FALSE)} : callGetThreads(1, Some(1), r, None)
    \/ /\ last.op = "getThreads"
       /\ last.ret.nextCursor # None
       /\ callGetThreads(last.args.zoneId, last.args.limit, last.args.includeResolved,
                         last.ret.nextCursor)

SpecThreadPages == InitThreadPages /\ [][NextThreadPages]_vars

\* C16: for every getThreads call with includeResolved = false and limit >= 1,
\* hasMore = false is returned only when no unresolved thread of the zone lies
\* past the rows the call read from the index.
C16_HasMoreNeverWrong ==
    \A z \in DOMAIN zones, l \in 1..MaxLimit, c \in ThreadCursors :
        LET page == getThreads(z, Some(l), Some(FALSE), c)
            window == ThreadWindow(z, Some(l), c)
            seen == {window[k] : k \in 1..Len(window)}
            cursorTime == parseInt(OrElse(c, <<"0">>))
            past == {t \in ThreadsOfZone(z) :
                        /\ t \notin seen
                        /\ ~threads[t].resolved
                        /\ c # None => threads[t].lastActivityAt < cursorTime}
        IN  ~page.hasMore => past = {}

\* C17: for every thread getThreads returns, firstMessage is the earliest
\* non-deleted message of the thread, or absent when it has none.
C17_PreviewIsEarliestLive ==
    \A z \in DOMAIN zones, l \in 1..MaxLimit :
        LET page == getThreads(z, Some(l), None, None)
        IN  \A k \in 1..Len(page.threads) :
                LET t == page.threads[k].thread._id
                    live == {m \in MessagesOfThread(t) : ~messages[m].isDeleted}
                    byTime == SortAsc(live, [m \in DOMAIN messages |-> messages[m].createdAt])
                IN  IF live = {} THEN page.threads[k].firstMessage = None
                    ELSE page.threads[k].firstMessage =
                            Some([_id |-> byTime[1], body |-> messages[byTime[1]].body,
                                  authorId |-> messages[byTime[1]].authorId,
                                  createdAt |-> messages[byTime[1]].createdAt])

\* every page of every zone holds threads of that zone only, in non-increasing
\* lastActivityAt order
ListsZoneByActivity ==
    \A z \in DOMAIN zones, l \in 1..MaxLimit, r \in {None, Some(FALSE)}, c \in ThreadCursors :
        LET page == getThreads(z, Some(l), r, c).threads
        IN  /\ \A k \in 1..Len(page) : page[k].thread.zoneId = z
            /\ \A k \in 1..(Len(page) - 1) :
                   page[k].thread.lastActivityAt >= page[k + 1].thread.lastActivityAt

\* the first entry of the first page of a zone, resolved threads included
FirstListed(z, l) == getThreads(z, Some(l), None, None).threads[1].thread

\* the thread in which the most recent call was a successful addComment,
\* editMessage or reaction insert, if it was one
LastActivity ==
    IF last.ok /\ last.op = "addComment" THEN {last.args.threadId}
    ELSE IF last.ok /\ (last.op = "editMessage" \/ ReactionInserted(last))
    THEN {messages[last.args.messageId].threadId}
    ELSE {}

\* a thread whose lastActivityAt is strictly later than that of every other
\* thread of its zone is the first entry of the first page
LatestListedFirst ==
    \A z \in DOMAIN zones : \A T \in ThreadsOfZone(z), l \in 1..MaxLimit :
        (\A U \in ThreadsOfZone(z) \ {T} :
            threads[U].lastActivityAt < threads[T].lastActivityAt)
            => FirstListed(z, l)._id = T

\* C18 as stated: getThreads returns only threads of the requested zone in
\* non-increasing lastActivityAt order, and right after a successful addComment,
\* editMessage or reaction insert in thread T, T is the first entry of the
\* first page of its zone.
C18_ActiveThreadListedFirst ==
    /\ ListsZoneByActivity
    /\ \A T \in LastActivity, l \in 1..MaxLimit :
          FirstListed(threads[T].zoneId, l)._id = T

\* C18: getThreads returns only threads of the requested zone in non-increasing
\* lastActivityAt order; right after a successful addComment, editMessage or
\* reaction insert in thread T, no thread of the zone has a later lastActivityAt
\* than T, and T is the first entry of the first page unless a thread of the
\* zone created after T has the same lastActivityAt and is listed before it;
\* and a thread whose lastActivityAt is strictly later than that of every
\* other thread of its zone is the first entry of the first page.
C18_LatestThreadListedFirst ==
    /\ ListsZoneByActivity
    /\ LatestListedFirst
    /\ \A T \in LastActivity, l \in 1..MaxLimit :
          LET first == FirstListed(threads[T].zoneId, l)
          IN  /\ \A U \in ThreadsOfZone(threads[T].zoneId) :
                     threads[U].lastActivityAt <= threads[T].lastActivityAt
              /\ \/ first._id = T
                 \/ /\ first._id > T
                    /\ first.lastActivityAt = threads[T].lastActivityAt

\* a comment was posted in the oldest of three threads of a zone, whose other
\* threads last saw activity earlier, and the thread is listed first
C18_Witness ==
    /\ last.op = "addComment"
    /\ last.ok
    /\ last.args.threadId = 1
    /\ Cardinality(ThreadsOfZone(1)) = 3
    /\ \A U \in ThreadsOfZone(1) \ {1} :
          threads[U].lastActivityAt < threads[1].lastActivityAt
    /\ FirstListed(1, 1)._id = 1

\* C19: on a non-deleted message and for a (user, emoji) pair without a
\* reaction, toggleReaction returns added = true with the id of the one row it
\* inserts; a toggleReaction with the same arguments called directly after it
\* returns added = false and removes exactly that row, so the reaction rows are
\* those before the first call and getReactions has no entry of the emoji that
\* names the user.  (Checked in SpecReactions.)
C19_ToggleTwiceRestores ==
    [][\A m \in MessageIds, u \in Users, e \in Emojis :
          LET args == [messageId |-> m, userId |-> u, emoji |-> e]
              called == now' = now /\ last'.op = "toggleReaction" /\ last'.args = args
          IN  /\ (/\ called
                  /\ m \in DOMAIN messages
                  /\ ~messages[m].isDeleted
                  /\ ReactionMatches(m, e, u) = {})
                     => /\ last'.ok
                        /\ last'.ret.added
                        /\ \E r \in ReactionIds \ DOMAIN reactions :
                              /\ last'.ret.reactionId = Some(r)
                              /\ DOMAIN reactions' = DOMAIN reactions \cup {r}
                              /\ \A q \in DOMAIN reactions : reactions'[q] = reactions[q]
                              /\ reactions'[r].messageId = m
                              /\ reactions'[r].userId = u
                              /\ reactions'[r].emoji = e
              /\ (/\ called
                  /\ last.op = "toggleReaction"
                  /\ last.ok
                  /\ last.args = args
                  /\ last.ret.added)
                     => /\ last'.ok
                        /\ ~last'.ret.added
                        /\ last.ret.reactionId \subseteq DOMAIN reactions
                        /\ reactions' = Remove(reactions, last.ret.reactionId)
                        /\ \A k \in 1..Len(getReactions(m, None)') :
                              getReactions(m, None)'[k].emoji = e =>
                                  \A j \in 1..Len(getReactions(m, None)'[k].users) :
                                      getReactions(m, None)'[k].users[j] # u]_vars

\* a reaction was toggled off on a message that keeps another user's reaction
C19_Witness ==
    /\ last.op = "toggleReaction"
    /\ last.ok
    /\ ~last.ret.added
    /\ nextId.reactions = 3
    /\ Len(getReactions(last.args.messageId, None)) = 1
    /\ getReactions(last.args.messageId, None)[1].users # <<last.args.userId>>

\* C20 as stated: addReaction for a (messageId, emoji, userId) triple that
\* already exists returns none without an error and leaves the whole store
\* unchanged, with exactly one row of the triple.  (Checked in SpecActivity.)
C20_RepeatedAddIsNoOp ==
    [][\A m \in MessageIds, u \in Users, e \in Emojis :
          (/\ now' = now
           /\ last'.op = "addReaction"
           /\ last'.args = [messageId |-> m, userId |-> u, emoji |-> e]
           /\ ReactionMatches(m, e, u) # {})
              => /\ last'.ok
                 /\ last'.ret = None
                 /\ UNCHANGED store
                 /\ Cardinality(ReactionMatches(m, e, u)') = 1]_vars

\* C20: addReaction for a (messageId, emoji, userId) triple that already exists
\* on a message that is not soft-deleted returns none without an error and
\* leaves the whole store unchanged, the thread's lastActivityAt included, with
\* exactly one row of the triple; on a soft-deleted message the call fails with
\* InvalidState and leaves the store unchanged.
C20_RepeatedAddOnLiveIsNoOp ==
    [][\A m \in MessageIds, u \in Users, e \in Emojis :
          (/\ now' = now
           /\ last'.op = "addReaction"
           /\ last'.args = [messageId |-> m, userId |-> u, emoji |-> e]
           /\ ReactionMatches(m, e, u) # {})
              => /\ m \in DOMAIN messages
                 /\ UNCHANGED store
                 /\ Cardinality(ReactionMatches(m, e, u)') = 1
                 /\ IF messages[m].isDeleted
                    THEN ~last'.ok /\ last'.err = "InvalidState"
                    ELSE last'.ok /\ last'.ret = None]_vars

\* addReaction was repeated, later than the reaction was added, and the
\* thread's lastActivityAt is still the earlier time
C20_Witness ==
    /\ last.op = "addReaction"
    /\ last.ok
    /\ last.ret = None
    /\ ReactionMatches(last.args.messageId, last.args.emoji, last.args.userId) # {}
    /\ threads[messages[last.args.messageId].threadId].lastActivityAt < now

\* C21: every getOrCreateZone(entityId) call returns the id of a zone row of
\* that entityId; only deleteZone removes a zone row or changes its entityId;
\* and a getOrCreateZone call made while a zone of the entityId exists returns
\* the id of that zone and leaves the zone table as it is.  Hence two calls with
\* the same entityId and no deleteZone in between return the same zoneId and
\* the second inserts no zone row.  (Checked in SpecZones.)
C21_SecondCallReturnsSameZone ==
    [][/\ \A z \in DOMAIN zones :
             (z \notin DOMAIN zones' \/ zones'[z].entityId # zones[z].entityId)
                => now' = now /\ last'.op = "deleteZone" /\ last'.ok
       /\ \A e \in EntityIds :
             (now' = now /\ last'.op = "getOrCreateZone" /\ last'.args.entityId = e)
                => /\ last'.ok
                   /\ last'.ret \in DOMAIN zones'
                   /\ zones'[last'.ret].entityId = e
                   /\ \A z \in ZoneMatches(e) :
                         /\ last'.ret = z
                         /\ zones' = zones
                         /\ nextId' = nextId]_vars

\* getOrCreateZone returned a zone that an earlier call had created
C21_Witness ==
    /\ last.op = "getOrCreateZone"
    /\ last.ok
    /\ last.ret \in DOMAIN zones
    /\ zones[last.ret].entityId = last.args.entityId
    /\ zones[last.ret].createdAt < now

\* C24: addReaction and toggleReaction fail with NotFound when the message
\* does not exist and with InvalidState when it is soft-deleted; the failing
\* call leaves the store unchanged: no reaction row is inserted or deleted and
\* no thread's lastActivityAt changes.  (Checked in SpecMessage.)
C24_ReactionPreconditions ==
    [][\A m \in MessageIds, u \in Users, e \in Emojis :
          (/\ now' = now
           /\ last'.op \in {"addReaction", "toggleReaction"}
           /\ last'.args = [messageId |-> m, userId |-> u, emoji |-> e]
           /\ (m \in DOMAIN messages => messages[m].isDeleted))
              => /\ ~last'.ok
                 /\ last'.err = IF m \in DOMAIN messages THEN "InvalidState"
                                ELSE "NotFound"
                 /\ reactions' = reactions
                 /\ threads' = threads
                 /\ UNCHANGED store]_vars

\* toggleReaction failed, later than the thread's last activity, on a
\* soft-deleted message that keeps the caller's reaction
C24_Witness ==
    /\ last.op = "toggleReaction"
    /\ last.err = "InvalidState"
    /\ last.args.messageId \in DOMAIN messages
    /\ messages[last.args.messageId].isDeleted
    /\ ReactionMatches(last.args.messageId, last.args.emoji, last.args.userId) # {}
    /\ messages[last.args.messageId].threadId \in DOMAIN threads
    /\ threads[messages[last.args.messageId].threadId].lastActivityAt < now

(***************************************************************************)
(* SpecOwnership: one message, edited and soft-deleted by callers that     *)
(* supply no authorId, the author's id, another user's id or the empty     *)
(* string.                                                                 *)
(***************************************************************************)
NextOwnership ==
    \/ Tick
    \/ getOrCreateZone("doc_1", None)
    \/ threads = <<>> /\ addThread(1, None)
    \/ messages = <<>> /\ addComment(1, "u1", BodyPlain, Some(<<Attachment1>>))
    \/ \E m \in MessageIds, b \in Bodies, a \in AuthorArgs : editMessage(m, b, a)
    \/ \E m \in MessageIds, a \in AuthorArgs : deleteMessage(m, a)

SpecOwnership == Init /\ [][NextOwnership]_vars

\* C22: editMessage fails with NotFound when the message is absent, with
\* InvalidState when it is soft-deleted and, on a live message, with
\* PermissionDenied when the authorId supplied differs from the stored
\* author; a failing call leaves the whole store (the message, its mentions
\* and links, the thread's lastActivityAt) unchanged.
C22_EditFailures ==
    [][\A m \in MessageIds, b \in Bodies, a \in AuthorArgs :
          (/\ now' = now
           /\ last'.op = "editMessage"
           /\ last'.args = [messageId |-> m, body |-> b, authorId |-> a])
              => /\ m \notin DOMAIN messages
                    => ~last'.ok /\ last'.err = "NotFound"
                 /\ (m \in DOMAIN messages /\ messages[m].isDeleted)
                    => ~last'.ok /\ last'.err = "InvalidState"
                 /\ (/\ m \in DOMAIN messages
                     /\ ~messages[m].isDeleted
                     /\ a # None
                     /\ a # Some(messages[m].authorId))
                    => ~last'.ok /\ last'.err = "PermissionDenied"
                 /\ ~last'.ok => UNCHANGED store]_vars

\* C23: deleteMessage with a supplied authorId that differs from the stored
\* author fails with PermissionDenied and leaves the message unchanged,
\* whatever the supplied value; a call that soft-deletes the message supplied
\* no authorId or the stored one.
C23_DeleteNeedsOwner ==
    [][\A m \in DOMAIN messages, a \in AuthorArgs :
          (/\ now' = now
           /\ last'.op = "deleteMessage"
           /\ last'.args = [messageId |-> m, authorId |-> a])
              => /\ (a # None /\ a # Some(messages[m].authorId))
                    => /\ ~last'.ok
                       /\ last'.err = "PermissionDenied"
                       /\ messages' = messages
                 /\ (last'.ok /\ ~messages[m].isDeleted /\ messages'[m].isDeleted)
                    => a \in {None, Some(messages[m].authorId)}]_vars

(***************************************************************************)
(* SpecPosting: users type and post in two threads of one zone.            *)
(***************************************************************************)
NextPosting ==
    \/ getOrCreateZone("doc_1", None)
    \/ addThread(1, None)
    \/ \E t \in ThreadIds, u \in Users : setIsTyping(t, u, TRUE)
    \/ \E t \in ThreadIds, u \in Users : addComment(t, u, BodyPlain, None)

SpecPosting == Init /\ [][NextPosting]_vars

\* C25: a successful addComment(threadId, authorId, ..) removes the typing
\* indicator of (threadId, authorId) and no other typing indicator, so that
\* getTypingUsers(threadId) does not list the author right after the post; an
\* addComment on an absent thread fails and leaves the store unchanged.
C25_PostingClearsTyping ==
    [][\A t \in ThreadIds, u \in Users :
          (/\ now' = now
           /\ last'.op = "addComment"
           /\ last'.args.threadId = t
           /\ last'.args.authorId = u)
              => IF last'.ok
                 THEN /\ t \in DOMAIN threads
                      /\ typingIndicators' =
                            Remove(typingIndicators, TypingMatches(t, u))
                      /\ TypingMatches(t, u)' = {}
                      /\ \A k \in 1..Len(getTypingUsers(t, None)') :
                            getTypingUsers(t, None)'[k].userId # u
                 ELSE /\ t \notin DOMAIN threads
                      /\ UNCHANGED store]_vars

\* a user who was typing posted, and the other typing indicator is still there
C25_Witness ==
    /\ last.op = "addComment"
    /\ last.ok
    /\ nextId.messages = 2
    /\ nextId.typingIndicators = 3
    /\ Cardinality(DOMAIN typingIndicators) = 1
    /\ TypingMatches(last.args.threadId, last.args.authorId) = {}

\* C26: a successful deleteThread removes exactly the thread, its messages,
\* the reactions on those messages and the typing indicators of the thread,
\* and returns the numbers of messages and reactions removed; the zones, every
\* other thread and every other row are unchanged.  (Checked in SpecCascade.)
C26_DeleteThreadCascade ==
    [][\A t \in DOMAIN threads :
          (last'.op = "deleteThread" /\ last'.ok /\ last'.args.threadId = t) =>
              LET msgs == {m \in DOMAIN messages : messages[m].threadId = t}
                  reacts == {r \in DOMAIN reactions : reactions[r].messageId \in msgs}
                  inds == {i \in DOMAIN typingIndicators :
                              typingIndicators[i].threadId = t}
              IN  /\ last'.ret = [deletedMessages |-> Cardinality(msgs),
                                  deletedReactions |-> Cardinality(reacts)]
                  /\ zones' = zones
                  /\ threads' = [x \in DOMAIN threads \ {t} |-> threads[x]]
                  /\ messages' = [m \in DOMAIN messages \ msgs |-> messages[m]]
                  /\ reactions' = [r \in DOMAIN reactions \ reacts |-> reactions[r]]
                  /\ typingIndicators' =
                        [i \in DOMAIN typingIndicators \ inds |-> typingIndicators[i]]]_vars

\* a thread with a message, a reaction and a typing indicator was deleted
\* while the other thread of the zone keeps its message
C26_Witness ==
    /\ last.op = "deleteThread"
    /\ last.ok
    /\ last.ret = [deletedMessages |-> 1, deletedReactions |-> 1]
    /\ nextId.typingIndicators = 2
    /\ typingIndicators = <<>>
    /\ Cardinality(DOMAIN zones) = 1
    /\ Cardinality(DOMAIN threads) = 1
    /\ Cardinality(DOMAIN messages) = 1

(***************************************************************************)
(* SpecSummary: reactions on one message, added and removed by users whose *)
(* id may be the empty string, and summarised for any viewer.              *)
(***************************************************************************)
ReactingUsers == Users \cup {""}
ViewerArgs == {None} \cup {Some(u) : u \in ReactingUsers}

NextSummary ==
    \/ Tick
    \/ getOrCreateZone("doc_1", None)
    \/ threads = <<>> /\ addThread(1, None)
    \/ messages = <<>> /\ addComment(1, "u1", BodyPlain, None)
    \/ \E u \in ReactingUsers, e \in Emojis : addReaction(1, u, e)
    \/ \E u \in ReactingUsers, e \in Emojis : removeReaction(1, u, e)

SpecSummary == Init /\ [][NextSummary]_vars

\* the reaction rows of an emoji on a message
RowsOfEmoji(messageId, emoji) ==
    {r \in ReactionsOfMessage(messageId) : reactions[r].emoji = emoji}

\* C27: getReactions(messageId, currentUserId) has one entry per distinct
\* emoji on the message; the entry's count is the number of reaction rows of
\* the emoji, its users are the userIds of those rows in order of creation,
\* and includesMe is true iff a currentUserId is supplied and is among users.
C27_SummaryGroupsByEmoji ==
    \A m \in DOMAIN messages, v \in ViewerArgs :
        LET res == getReactions(m, v)
        IN  /\ \A j, k \in 1..Len(res) : res[j].emoji = res[k].emoji => j = k
            /\ {res[k].emoji : k \in 1..Len(res)} =
                   {reactions[r].emoji : r \in ReactionsOfMessage(m)}
            /\ \A r, q \in ReactionsOfMessage(m) :
                   r < q => reactions[r].createdAt <= reactions[q].createdAt
            /\ \A k \in 1..Len(res) :
                   LET rows == AscById(RowsOfEmoji(m, res[k].emoji))
                   IN  /\ res[k].count = Cardinality(RowsOfEmoji(m, res[k].emoji))
                       /\ res[k].users = [j \in 1..Len(rows) |-> reactions[rows[j]].userId]
                       /\ res[k].includesMe =
                              (/\ v # None
                               /\ \E j \in 1..Len(res[k].users) : Some(res[k].users[j]) = v)

\* C30: getThreads called without includeResolved returns only unresolved
\* threads, so that a thread on which resolveThread has succeeded is not in
\* the listing while it is resolved.  (Checked in SpecThreadPages.)
C30_DefaultHidesResolved ==
    \A z \in DOMAIN zones, l \in 1..MaxLimit :
        LET page == getThreads(z, Some(l), None, None)
        IN  \A k \in 1..Len(page.threads) : ~page.threads[k].thread.resolved

(***************************************************************************)
(* The client library: Comments.addComment and the functions of exposeApi. *)
(* A call runs inside one transaction of the application, so no other call *)
(* starts while one is running.  Its steps are the awaits of the handler:  *)
(* the auth callback (exposeApi only), the component function, and the     *)
(* notification callbacks before the return.  Callbacks return normally.   *)
(***************************************************************************)
\* "@u2 @u1"
BodyMentions == <<"@", "u", "2", " ", "@", "u", "1">>

\* MentionCallbacks: the callbacks an application may configure
CallbackNames == {"onNewMessage", "onMention"}

\* the functions of exposeApi that call auth with .catch(() => undefined)
CatchingFns == {"getMessages", "getReactions", "getTypingUsers"}

\* what the auth callback does: it throws (None) or resolves to a user id
AuthResults == {None} \cup {Some(u) : u \in Users}

\* the AuthOperation an exposed function passes to options.auth
AuthOperation(fn, args) ==
    CASE fn = "getThreads" -> [type |-> "read", zoneId |-> args.zoneId]
      [] fn = "resolveThread" -> [type |-> "update", threadId |-> args.threadId]
      [] fn = "addComment" -> [type |-> "create", threadId |-> args.threadId]
      [] fn = "getMessages" -> [type |-> "read", threadId |-> args.threadId]
      [] fn = "editMessage" -> [type |-> "update", messageId |-> args.messageId]
      [] fn = "deleteMessage" -> [type |-> "delete", messageId |-> args.messageId]
      [] fn = "toggleReaction" -> [type |-> "react", messageId |-> args.messageId]
      [] fn = "getReactions" -> [type |-> "read"]
      [] fn = "setIsTyping" -> [type |-> "create", threadId |-> args.threadId]
      [] fn = "getTypingUsers" -> [type |-> "read", threadId |-> args.threadId]

\* the calls the application's clients make through exposeApi
PostRequests ==
    {[fn |-> "addComment", args |-> [threadId |-> t, body |-> b, attachments |-> None]] :
         t \in ThreadIds, b \in {BodyPlain, BodyMentions}}

ExposedRequests ==
    {[fn |-> "getThreads",
      args |-> [zoneId |-> 1, limit |-> None, includeResolved |-> None, cursor |-> None]],
     [fn |-> "resolveThread", args |-> [threadId |-> 1]],
     [fn |-> "addComment", args |-> [threadId |-> 1, body |-> BodyPlain, attachments |-> None]],
     [fn |-> "getMessages",
      args |-> [threadId |-> 1, limit |-> None, cursor |-> None, order |-> None,
                includeDeleted |-> None]],
     [fn |-> "editMessage", args |-> [messageId |-> 1, body |-> BodyTokens]],
     [fn |-> "deleteMessage", args |-> [messageId |-> 1]],
     [fn |-> "toggleReaction", args |-> [messageId |-> 1, emoji |-> "thumbsup"]],
     [fn |-> "getReactions", args |-> [messageId |-> 1]],
     [fn |-> "setIsTyping", args |-> [threadId |-> 1, isTyping |-> TRUE]],
     [fn |-> "getTypingUsers", args |-> [threadId |-> 1]]}

\* the calls the application makes on an instance of Comments
CommentsRequests ==
    {[fn |-> "addComment",
      args |-> [threadId |-> t, authorId |-> "u1", body |-> b, attachments |-> None]] :
         t \in ThreadIds, b \in {BodyPlain, BodyMentions}}

\* an exposed function is called: its handler awaits options.auth first
exposeApi_begin(fn, args, authResult) ==
    LET rejected == authResult = None
        thrown == rejected /\ fn \notin CatchingFns
    IN  /\ client.stage # "running"
        /\ last' = IF rejected THEN Fail("auth", AuthOperation(fn, args), "Rejected")
                   ELSE Ok("auth", AuthOperation(fn, args), authResult)
        /\ client' = [client EXCEPT
                         !.via = "exposeApi", !.fn = fn, !.args = args,
                         !.auth = IF rejected THEN "rejected" ELSE "ok",
                         !.userId = authResult,
                         !.stage = IF thrown THEN "threw" ELSE "running",
                         !.err = IF thrown THEN "Rejected" ELSE "",
                         !.ret = <<>>, !.fired = <<>>]
        /\ UNCHANGED <<store, now>>

\* a method of Comments is called: there is no auth callback
Comments_begin(fn, args) ==
    /\ client.stage # "running"
    /\ last' = Ok("Comments", [fn |-> fn], <<>>)
    /\ client' = [client EXCEPT
                     !.via = "Comments", !.fn = fn, !.args = args, !.auth = "none",
                     !.userId = None, !.stage = "running", !.err = "", !.ret = <<>>,
                     !.fired = <<>>]
    /\ UNCHANGED <<store, now>>

\* the queries of the component, run for a viewer
callGetMessagesFor(threadId, limit, cursor, order, currentUserId, includeDeleted) ==
    /\ last' = Ok("getMessages",
                  [threadId |-> threadId, limit |-> limit, cursor |-> cursor,
                   order |-> order, currentUserId |-> currentUserId,
                   includeDeleted |-> includeDeleted],
                  getMessages(threadId, limit, cursor, order, currentUserId, includeDeleted))
    /\ UNCHANGED <<store, now, client>>

callGetReactions(messageId, currentUserId) ==
    /\ last' = Ok("getReactions",
                  [messageId |-> messageId, currentUserId |-> currentUserId],
                  getReactions(messageId, currentUserId))
    /\ UNCHANGED <<store, now, client>>

callGetTypingUsers(threadId, excludeUserId) ==
    /\ last' = Ok("getTypingUsers",
                  [threadId |-> threadId, excludeUserId |-> excludeUserId],
                  getTypingUsers(threadId, excludeUserId))
    /\ UNCHANGED <<store, now, client>>

\* the handler of function fn is about to run the component function
Running(fn) ==
    /\ client.stage = "running"
    /\ last.op \in {"auth", "Comments"}
    /\ client.fn = fn

\* the user id options.auth resolved to
AuthUserId == CHOOSE u \in client.userId : TRUE

\* ctx.runQuery / ctx.runMutation of the component function, per function
run_getThreads ==
    /\ Running("getThreads")
    /\ callGetThreads(client.args.zoneId, client.args.limit, client.args.includeResolved,
                      client.args.cursor)

run_resolveThread ==
    /\ Running("resolveThread")
    /\ resolveThread(client.args.threadId, AuthUserId)

run_addComment ==
    /\ Running("addComment")
    /\ client.via = "exposeApi"
    /\ addComment(client.args.threadId, AuthUserId, client.args.body,
                  client.args.attachments)

\* ctx.runMutation in Comments.addComment: the author is an argument
Comments_run_addComment ==
    /\ Running("addComment")
    /\ client.via = "Comments"
    /\ addComment(client.args.threadId, client.args.authorId, client.args.body,
                  client.args.attachments)

run_getMessages ==
    /\ Running("getMessages")
    /\ callGetMessagesFor(client.args.threadId, client.args.limit, client.args.cursor,
                          client.args.order, client.userId, client.args.includeDeleted)

run_editMessage ==
    /\ Running("editMessage")
    /\ editMessage(client.args.messageId, client.args.body, client.userId)

run_deleteMessage ==
    /\ Running("deleteMessage")
    /\ deleteMessage(client.args.messageId, client.userId)

run_toggleReaction ==
    /\ Running("toggleReaction")
    /\ toggleReaction(client.args.messageId, AuthUserId, client.args.emoji)

run_getReactions ==
    /\ Running("getReactions")
    /\ callGetReactions(client.args.messageId, client.userId)

run_setIsTyping ==
    /\ Running("setIsTyping")
    /\ setIsTyping(client.args.threadId, AuthUserId, client.args.isTyping)

run_getTypingUsers ==
    /\ Running("getTypingUsers")
    /\ callGetTypingUsers(client.args.threadId, client.userId)

\* callbacks that notify the mentioned users last-to-first
CallbacksFired_LastMentionFirst(callbacks, result, threadId, authorId, body) ==
    (IF "onNewMessage" \in callbacks
     THEN <<[callback |-> "onNewMessage", messageId |-> result.messageId,
             threadId |-> threadId, authorId |-> authorId, body |-> body,
             mentions |-> result.mentions]>>
     ELSE <<>>)
    \o (IF "onMention" \in callbacks
        THEN [k \in 1..Len(result.mentions) |->
                 [callback |-> "onMention", messageId |-> result.messageId,
                  mentionedUserId |->
                      result.mentions[Len(result.mentions) + 1 - k].userId,
                  authorId |-> authorId, body |-> body]]
        ELSE <<>>)

\* the callbacks addComment fires after the mutation, in the order of the calls
CallbacksFired(callbacks, result, threadId, authorId, body) ==
    (IF "onNewMessage" \in callbacks
     THEN <<[callback |-> "onNewMessage", messageId |-> result.messageId,
             threadId |-> threadId, authorId |-> authorId, body |-> body,
             mentions |-> result.mentions]>>
     ELSE <<>>)
    \o (IF "onMention" \in callbacks
        THEN [k \in 1..Len(result.mentions) |->
                 [callback |-> "onMention", messageId |-> result.messageId,
                  mentionedUserId |-> result.mentions[k].userId,
                  authorId |-> authorId, body |-> body]]
        ELSE <<>>)

\* after the component function: its error is rethrown, or the callbacks
\* are fired (addComment) and its result is returned
fireCallbacksAndReturn ==
    /\ client.stage = "running"
    /\ last.op \notin {"auth", "Comments"}
    /\ client' =
          IF ~last.ok
          THEN [client EXCEPT !.stage = "threw", !.err = last.err]
          ELSE [client EXCEPT
                   !.stage = "returned", !.ret = last.ret,
                   !.fired = IF client.fn = "addComment"
                             THEN CallbacksFired(client.callbacks, last.ret,
                                                 last.args.threadId, last.args.authorId,
                                                 last.args.body)
                             ELSE <<>>]
    /\ UNCHANGED <<store, now, last>>

\* one zone with one thread, and the callbacks the application has configured
ClientStart(callbacks) ==
    /\ zones = (1 :> [entityId |-> "doc_1", metadata |-> None, createdAt |-> StartTime])
    /\ threads = (1 :> [zoneId |-> 1, resolved |-> FALSE, resolvedBy |-> None,
                        resolvedAt |-> None, createdAt |-> StartTime,
                        lastActivityAt |-> StartTime, position |-> None,
                        metadata |-> None])
    /\ messages = <<>>
    /\ reactions = <<>>
    /\ typingIndicators = <<>>
    /\ scheduled = EmptyBag
    /\ nextId = [zones |-> 2, threads |-> 2, messages |-> 1, reactions |-> 1,
                 typingIndicators |-> 1]
    /\ now = StartTime
    /\ last = [op |-> "init", args |-> <<>>, ok |-> TRUE, err |-> "", ret |-> <<>>]
    /\ client = [ClientIdle EXCEPT !.callbacks = callbacks]

InitClient == \E callbacks \in SUBSET CallbackNames : ClientStart(callbacks)

InitExposed == ClientStart({})

\* the application posts through the Comments instance and through exposeApi
NextClient ==
    \/ \E r \in PostRequests, a \in AuthResults : exposeApi_begin(r.fn, r.args, a)
    \/ \E r \in CommentsRequests : Comments_begin(r.fn, r.args)
    \/ run_addComment
    \/ Comments_run_addComment
    \/ fireCallbacksAndReturn

SpecClient == InitClient /\ [][NextClient]_vars

\* the application's clients call the functions of exposeApi
NextExposed ==
    \/ \E r \in ExposedRequests, a \in AuthResults : exposeApi_begin(r.fn, r.args, a)
    \/ run_getThreads
    \/ run_resolveThread
    \/ run_addComment
    \/ run_getMessages
    \/ run_editMessage
    \/ run_deleteMessage
    \/ run_toggleReaction
    \/ run_getReactions
    \/ run_setIsTyping
    \/ run_getTypingUsers
    \/ fireCallbacksAndReturn

SpecExposed == InitExposed /\ [][NextExposed]_vars

\* C28: when addComment called through Comments or through exposeApi has
\* returned, the callbacks it fired are: onNewMessage exactly once and first,
\* if configured, and then onMention once per entry of the mention list of the
\* message, in list order and with the entry's userId, if configured; when the
\* call has thrown (auth rejected, thread absent) no callback was fired.
C28_CallbacksPerComment ==
    (client.fn = "addComment" /\ client.stage \in {"returned", "threw"}) =>
        IF client.stage = "returned"
        THEN LET mentions == messages[client.ret.messageId].mentions
                 isNew(c) == c.callback = "onNewMessage"
                 isMention(c) == c.callback = "onMention"
                 news == SelectSeq(client.fired, isNew)
                 ments == SelectSeq(client.fired, isMention)
             IN  /\ Len(news) + Len(ments) = Len(client.fired)
                 /\ Len(news) = IF "onNewMessage" \in client.callbacks THEN 1 ELSE 0
                 /\ Len(news) = 1 =>
                        /\ client.fired[1].callback = "onNewMessage"
                        /\ client.fired[1].messageId = client.ret.messageId
                 /\ Len(ments) = IF "onMention" \in client.callbacks THEN Len(mentions)
                                 ELSE 0
                 /\ \A k \in 1..Len(ments) :
                        /\ ments[k].mentionedUserId = mentions[k].userId
                        /\ ments[k].messageId = client.ret.messageId
        ELSE client.fired = <<>>

\* a comment with two mentions was posted through exposeApi with both
\* callbacks configured: three callbacks were fired
C28_Witness ==
    /\ client.via = "exposeApi"
    /\ client.fn = "addComment"
    /\ client.stage = "returned"
    /\ client.callbacks = CallbackNames
    /\ Len(messages[client.ret.messageId].mentions) = 2
    /\ Len(client.fired) = 3

MaxBody == 4

\* all strings of at most n characters over an alphabet
Strings(alphabet, n) == UNION {[1..k -> alphabet] : k \in 0..n}

MentionAlphabet == {"@", "a", ":", " "}

\* "Hey @user_2, check this out!"
MentionExample ==
    <<"H", "e", "y", " ", "@", "u", "s", "e", "r", "_", "2", ",", " ", "c", "h", "e", "c", "k", " ", "t", "h", "i", "s", " ", "o", "u", "t", "!">>

MentionBodies == Strings(MentionAlphabet, MaxBody) \cup {MentionExample}

callParseMentions(body) ==
    /\ last' = Ok("parseMentions", [body |-> body], parseMentions(body))
    /\ UNCHANGED <<store, now, client>>

NextMentions == \E body \in MentionBodies : callParseMentions(body)

SpecMentions == Init /\ [][NextMentions]_vars

\* C32: the entries of parseMentions(body) are, from left to right, the
\* maximal runs '@' + one or more characters of [a-zA-Z0-9_-:] of the body:
\* body[start, end) is '@' + userId, end - start = length(userId) + 1, the run
\* cannot be extended, entries do not overlap, and every '@' followed by a
\* character of the class starts an entry.  The body of the test yields
\* exactly {userId: "user_2", start: 4, end: 11}.
C32_MentionsAreMaximalRuns ==
    last.op = "parseMentions" =>
        LET body == last.args.body
            res == last.ret
        IN  /\ \A k \in 1..Len(res) :
                   /\ 0 <= res[k].start
                   /\ res[k].end <= Len(body)
                   /\ Len(res[k].userId) >= 1
                   /\ res[k].end - res[k].start = Len(res[k].userId) + 1
                   /\ SubSeq(body, res[k].start + 1, res[k].end) = <<"@">> \o res[k].userId
                   /\ \A j \in 1..Len(res[k].userId) : res[k].userId[j] \in MentionChars
                   /\ res[k].end < Len(body) => body[res[k].end + 1] \notin MentionChars
                   /\ k < Len(res) => res[k].end <= res[k + 1].start
            /\ \A p \in 1..(Len(body) - 1) :
                   (body[p] = "@" /\ body[p + 1] \in MentionChars)
                       => \E k \in 1..Len(res) : res[k].start = p - 1
            /\ body = MentionExample =>
                   res = <<[userId |-> <<"u", "s", "e", "r", "_", "2">>, start |-> 4, end |-> 11]>>

\* parseMentions has returned two mentions that touch: "@a@a"
C32_Witness ==
    /\ last.op = "parseMentions"
    /\ Len(last.ret) = 2
    /\ last.ret[1].end = last.ret[2].start

(***************************************************************************)
(* SpecLinks: parseLinks applied to bodies that hold one or two tokens     *)
(* starting with http:// or https://, and to the body of the test.         *)
(***************************************************************************)
Http == <<"h", "t", "t", "p", ":", "/", "/">>
Https == <<"h", "t", "t", "p", "s", ":", "/", "/">>

LinkAlphabet == {"a", ".", " ", "<"}

\* "Check out https://convex.dev for more info"
LinkExample ==
    <<"C", "h", "e", "c", "k", " ", "o", "u", "t", " ", "h", "t", "t", "p", "s", ":", "/", "/", "c", "o", "n", "v", "e", "x", ".", "d", "e", "v", " ", "f", "o", "r", " ", "m", "o", "r", "e", " ">>
        \o <<"i", "n", "f", "o">>

LinkBodies ==
    {scheme \o tail : scheme \in {Http, Https}, tail \in Strings(LinkAlphabet, MaxBody)}
    \cup {Http \o t1 \o <<" ">> \o Https \o t2 :
             t1 \in Strings(LinkAlphabet, 2), t2 \in Strings(LinkAlphabet, 2)}
    \cup {LinkExample}

callParseLinks(body) ==
    /\ last' = Ok("parseLinks", [body |-> body], parseLinks(body))
    /\ UNCHANGED <<store, now, client>>

NextLinks == \E body \in LinkBodies : callParseLinks(body)

SpecLinks == Init /\ [][NextLinks]_vars

\* the closing-punctuation characters a link does not end with
ClosingPunctuation == {".", ",", ":", ";", "\"", "'", ")", "]"}

\* C33: the entries of parseLinks(body) are, from left to right and without
\* overlap, the tokens of the body that start with http:// or https://: url
\* is body[start, end), it starts with the scheme, holds no whitespace and
\* does not end with a closing-punctuation character; every occurrence of a
\* scheme outside an earlier entry that is followed by a character other than
\* whitespace, '<' and closing punctuation starts an entry.  The body of the
\* test yields exactly one link, "https://convex.dev".
C33_LinksAreTokens ==
    last.op = "parseLinks" =>
        LET body == last.args.body
            res == last.ret
        IN  /\ \A k \in 1..Len(res) :
                   /\ 0 <= res[k].start
                   /\ res[k].end <= Len(body)
                   /\ res[k].url = SubSeq(body, res[k].start + 1, res[k].end)
                   /\ \/ SubSeq(res[k].url, 1, Len(Http)) = Http
                      \/ SubSeq(res[k].url, 1, Len(Https)) = Https
                   /\ \A j \in 1..Len(res[k].url) : res[k].url[j] \notin WhiteSpace
                   /\ res[k].url[Len(res[k].url)] \notin ClosingPunctuation
                   /\ k < Len(res) => res[k].end <= res[k + 1].start
            /\ \A p \in 1..Len(body) :
                   (/\ SchemeEnd(body, p) # 0
                    /\ SchemeEnd(body, p) <= Len(body)
                    /\ body[SchemeEnd(body, p)] \notin
                           (WhiteSpace \cup {"<"} \cup ClosingPunctuation)
                    /\ \A k \in 1..Len(res) : ~(res[k].start < p - 1 /\ p - 1 < res[k].end))
                       => \E k \in 1..Len(res) : res[k].start = p - 1
            /\ body = LinkExample =>
                   /\ Len(res) = 1
                   /\ res[1].url = <<"h", "t", "t", "p", "s", ":", "/", "/", "c", "o", "n", "v", "e", "x", ".", "d", "e", "v">>

(***************************************************************************)
(* SpecStamps: the two threads of one zone over time.  Comments are        *)
(* posted, edited and reacted to, and threads are touched.                 *)
(***************************************************************************)
NextStamps ==
    \/ Tick
    \/ getOrCreateZone("doc_1", None)
    \/ addThread(1, None)
    \/ \E t \in ThreadIds : addComment(t, "u1", BodyPlain, None)
    \/ \E m \in MessageIds : editMessage(m, BodyTokens, None)
    \/ \E m \in MessageIds : deleteMessage(m, None)
    \/ \E m \in MessageIds : addReaction(m, "u2", "thumbsup")
    \/ \E t \in ThreadIds : updateThreadActivity(t)

SpecStamps == Init /\ [][NextStamps]_vars

\* C34: in every state between two transactions, the lastActivityAt of each
\* thread is at least the createdAt of every message stored in that thread.
C34_ActivityCoversMessages ==
    \A m \in DOMAIN messages :
        messages[m].threadId \in DOMAIN threads
            => threads[messages[m].threadId].lastActivityAt >= messages[m].createdAt

\* a thread created before the clock moved holds a message posted after it
C34_Witness ==
    \E m \in DOMAIN messages :
        /\ messages[m].threadId \in DOMAIN threads
        /\ messages[m].createdAt > threads[messages[m].threadId].createdAt
        /\ threads[messages[m].threadId].lastActivityAt = messages[m].createdAt

(***************************************************************************)
(* SpecTouch: every operation on the threads of one zone and on the one    *)
(* message posted in them, with the queries run in between.                *)
(***************************************************************************)
NextTouch ==
    \/ Tick
    \/ getOrCreateZone("doc_1", None)
    \/ addThread(1, None)
    \/ \E t \in ThreadIds : messages = <<>> /\ addComment(t, "u1", BodyPlain, None)
    \/ editMessage(1, BodyTokens, None)
    \/ deleteMessage(1, None)
    \/ resolveMessage(1, "u2")
    \/ addReaction(1, "u2", "thumbsup")
    \/ toggleReaction(1, "u2", "thumbsup")
    \/ \E t \in ThreadIds : updateThreadActivity(t)
    \/ resolveThread(1, "u1")
    \/ unresolveThread(1)
    \/ updateThreadPosition(1, Some(Position1))
    \/ scheduled = EmptyBag /\ setIsTyping(1, "u2", TRUE)
    \/ callGetThreads(1, Some(MaxThreads), None, None)
    \/ callGetMessages(1, Some(MaxMessages), None, None, None)
    \/ callGetReactions(1, Some("u2"))
    \/ callGetTypingUsers(1, None)

SpecTouch == Init /\ [][NextTouch]_vars

\* the operations that write a thread's lastActivityAt
TouchingOps == {"addComment", "editMessage", "updateThreadActivity"}

\* the operations and queries that leave it alone
UntouchingOps ==
    {"resolveThread", "unresolveThread", "updateThreadPosition", "deleteMessage",
     "resolveMessage", "setIsTyping", "getThreads", "getMessages", "getReactions",
     "getTypingUsers"}

\* C40: the lastActivityAt of a thread never decreases; a step changes it
\* only when the step is addComment, editMessage, updateThreadActivity or
\* the insert of a reaction row; resolveThread, unresolveThread,
\* updateThreadPosition, deleteMessage, resolveMessage, setIsTyping and the
\* queries leave the lastActivityAt of every thread as it was.
C40_ActivityMovesOnlyByTouch ==
    [][\A t \in DOMAIN threads \cap DOMAIN threads' :
          /\ threads'[t].lastActivityAt >= threads[t].lastActivityAt
          /\ threads'[t].lastActivityAt # threads[t].lastActivityAt
                 => /\ last'.ok
                    /\ \/ last'.op \in TouchingOps
                       \/ last'.op \in {"addReaction", "toggleReaction"}
                              /\ ReactionInserted(last')
          /\ (now' = now /\ last'.op \in UntouchingOps)
                 => threads'[t].lastActivityAt = threads[t].lastActivityAt]_vars

\* a thread was resolved after the clock moved and kept its older activity time
C40_Witness ==
    /\ last.op = "resolveThread"
    /\ last.ok
    /\ threads[1].resolvedAt = Some(now)
    /\ threads[1].lastActivityAt < now

\* C35: from the step that soft-deletes a message on, and for as long as the
\* message stays soft-deleted, its reaction rows are exactly the rows it had
\* just before the soft delete: deleteMessage touches no reaction, and no
\* later addReaction, removeReaction or toggleReaction changes the set.
C35_ReactionsFrozenWhileDeleted ==
    [][\A m \in DOMAIN messages \cap DOMAIN messages' :
          messages'[m].isDeleted
              => /\ {r \in DOMAIN reactions' : reactions'[r].messageId = m}
                        = ReactionsOfMessage(m)
                 /\ \A r \in ReactionsOfMessage(m) : reactions'[r] = reactions[r]]_vars

\* a step of the sweep: the one operation that consumes a scheduled job
SweepStep == last'.op = "cleanupExpiredIndicators" /\ scheduled' # scheduled

\* C36: every run of cleanupExpiredIndicators, however it is interleaved
\* with other sweeps and with setIsTyping, deletes exactly the rows with
\* expiresAt < now, leaves the other rows as they are and returns the number
\* of rows deleted; the answer of getTypingUsers is the same just before and
\* just after it, for every thread and excluded user; no expired row is left
\* behind, so a sweep run again at the same time, with no row expired in
\* between, deletes nothing and returns 0.
C36_SweepDeletesOnlyExpired ==
    [][SweepStep =>
          /\ \A i \in DOMAIN typingIndicators :
                 i \in DOMAIN typingIndicators' <=> ~(typingIndicators[i].expiresAt < now)
          /\ \A i \in DOMAIN typingIndicators' :
                 /\ i \in DOMAIN typingIndicators
                 /\ typingIndicators'[i] = typingIndicators[i]
          /\ last'.ret = Cardinality(DOMAIN typingIndicators \ DOMAIN typingIndicators')
          /\ \A t \in ThreadIds, x \in {None} \cup {Some(u) : u \in Users} :
                 getTypingUsers(t, x)' = getTypingUsers(t, x)
          /\ \A i \in DOMAIN typingIndicators' : ~(typingIndicators'[i].expiresAt < now')
          /\ (\A i \in DOMAIN typingIndicators : ~(typingIndicators[i].expiresAt < now))
                 => typingIndicators' = typingIndicators /\ last'.ret = 0]_vars

\* a sweep that ran late deleted the one expired row and kept a row that
\* expires at this very instant, which getTypingUsers still reports
C36_Witness ==
    /\ last.op = "cleanupExpiredIndicators"
    /\ last.ret = 1
    /\ \E i \in DOMAIN typingIndicators :
           /\ typingIndicators[i].expiresAt = now
           /\ typingIndicators[i].userId \in TypingNow(typingIndicators[i].threadId)

\* the messages of a thread that are not soft-deleted
LiveMessages(threadId) == {m \in MessagesOfThread(threadId) : ~messages[m].isDeleted}

\* C37: for a thread whose messages have pairwise distinct createdAt, some of
\* them soft-deleted, and for every limit >= 1 and direction, the pages got
\* with includeDeleted left to its default by following nextCursor until
\* hasMore = false hold every message that is not soft-deleted, in the order
\* of the direction; and a page with hasMore = false is returned only when no
\* such message lies strictly past the last message of the page.
C37_PagesCoverLiveMessages ==
    \A t \in DOMAIN threads, l \in 1..MaxLimit, o \in Orders :
        (\A m1, m2 \in MessagesOfThread(t) :
             m1 # m2 => messages[m1].createdAt # messages[m2].createdAt)
            => LET pages == MessagePages(t, l, o, None)
                   byTime == SortAsc(LiveMessages(t),
                                     [m \in DOMAIN messages |-> messages[m].createdAt])
                   final == pages[Len(pages)]
                   Past(m) ==
                       LET lastRow == final.messages[Len(final.messages)].message
                       IN  IF o = "asc" THEN messages[m].createdAt > lastRow.createdAt
                           ELSE messages[m].createdAt < lastRow.createdAt
               IN  /\ PagedIds(pages) = IF o = "asc" THEN byTime ELSE Reverse(byTime)
                   /\ (~final.hasMore /\ Len(final.messages) > 0)
                          => \A m \in LiveMessages(t) : ~Past(m)

(***************************************************************************)
(* SpecTraversal: a caller pages through the threads of a zone, or through *)
(* the messages of a thread, by passing the nextCursor of each page to the *)
(* next call, while other callers post, edit, react, add threads and       *)
(* resolve between the pages.  One traversal is followed; from its first   *)
(* call on, client holds the query, its arguments, the cursor to pass next *)
(* and the ids returned so far.                                            *)
(***************************************************************************)
\* a millisecond passes between two calls
Later ==
    /\ now + 1 < StartTime + MaxPagedThreads
    /\ now' = now + 1
    /\ UNCHANGED <<store, last, client>>

\* the ids of the rows of a page
ThreadIdsOf(page) == [k \in 1..Len(page.threads) |-> page.threads[k].thread._id]
MessageIdsOf(page) == [k \in 1..Len(page.messages) |-> page.messages[k].message._id]

\* the first call of a traversal of getThreads
beginThreads(zoneId, limit, includeResolved) ==
    LET args == [zoneId |-> zoneId, limit |-> limit,
                 includeResolved |-> includeResolved, cursor |-> None]
        page == getThreads(zoneId, limit, includeResolved, None)
    IN  /\ client' = [fn |-> "getThreads", args |-> args, cursor |-> page.nextCursor,
                      seen |-> ThreadIdsOf(page)]
        /\ last' = Ok("getThreads", args, page)
        /\ UNCHANGED <<store, now>>

\* the next call of the traversal, with the nextCursor of the page before
followThreads ==
    /\ client.fn = "getThreads"
    /\ client.cursor # None
    /\ LET args == [client.args EXCEPT !.cursor = client.cursor]
           page == getThreads(args.zoneId, args.limit, args.includeResolved, args.cursor)
       IN  /\ client' = [client EXCEPT !.cursor = page.nextCursor,
                                       !.seen = @ \o ThreadIdsOf(page)]
           /\ last' = Ok("getThreads", args, page)
    /\ UNCHANGED <<store, now>>

\* the first call of a traversal of getMessages
beginMessages(threadId, limit, order) ==
    LET args == [threadId |-> threadId, limit |-> limit, cursor |-> None,
                 order |-> order, includeDeleted |-> None]
        page == getMessages(threadId, limit, None, order, None, None)
    IN  /\ client' = [fn |-> "getMessages", args |-> args, cursor |-> page.nextCursor,
                      seen |-> MessageIdsOf(page)]
        /\ last' = Ok("getMessages", args, page)
        /\ UNCHANGED <<store, now>>

followMessages ==
    /\ client.fn = "getMessages"
    /\ client.cursor # None
    /\ LET args == [client.args EXCEPT !.cursor = client.cursor]
           page == getMessages(args.threadId, args.limit, args.cursor, args.order,
                               None, None)
       IN  /\ client' = [client EXCEPT !.cursor = page.nextCursor,
                                       !.seen = @ \o MessageIdsOf(page)]
           /\ last' = Ok("getMessages", args, page)
    /\ UNCHANGED <<store, now>>

NextTraversal ==
    \/ Later
    \/ addThread(1, None)
    \/ \E t \in 1..2 : addComment(t, "u1", BodyPlain, None)
    \/ editMessage(1, BodyTokens, None)
    \/ addReaction(1, "u2", "thumbsup")
    \/ resolveThread(1, "u1")
    \/ client = ClientIdle /\ beginThreads(1, Some(1), None)
    \/ followThreads
    \/ \E o \in Orders : client = ClientIdle /\ beginMessages(1, Some(1), Some(o))
    \/ followMessages

SpecTraversal == InitThreadPages /\ [][NextTraversal]_vars

RECURSIVE reactionMap(_, _)
reactionMap(rows, map) ==
    IF rows = <<>> THEN map
    ELSE LET reaction == reactions[Head(rows)]
             existing == {k \in 1..Len(map) : map[k].emoji = reaction.emoji}
         IN  reactionMap(Tail(rows),
                 IF existing # {}
                 THEN [map EXCEPT ![CHOOSE k \in existing : TRUE] =
                          [@ EXCEPT !.count = @ + 1,
                                    !.users = Append(@, reaction.userId)]]
                 ELSE Append(map, [emoji |-> reaction.emoji, count |-> 1,
                                   users |-> <<reaction.userId>>]))

\* getMessage that reports includesMe = false for every viewer
getMessage_IgnoresViewer(messageId, currentUserId) ==
    IF messageId \notin DOMAIN messages THEN None
    ELSE LET map == reactionMap(AscById(ReactionsOfMessage(messageId)), <<>>)
         IN  Some([message |-> [_id |-> messageId] @@ messages[messageId],
                   reactions |->
                       [k \in 1..Len(map) |->
                           [emoji |-> map[k].emoji, count |-> map[k].count,
                            users |-> map[k].users, includesMe |-> FALSE]]])

getMessage(messageId, currentUserId) ==
    IF messageId \notin DOMAIN messages THEN None
    ELSE LET map == reactionMap(AscById(ReactionsOfMessage(messageId)), <<>>)
         IN  Some([message |-> [_id |-> messageId] @@ messages[messageId],
                   reactions |->
                       [k \in 1..Len(map) |->
                           [emoji |-> map[k].emoji, count |-> map[k].count,
                            users |-> map[k].users,
                            includesMe |->
                                /\ Truthy(currentUserId)
                                /\ \E j \in 1..Len(map[k].users) :
                                       Some(map[k].users[j]) = currentUserId]]])

callGetMessage(messageId, currentUserId) ==
    /\ last' = Ok("getMessage", [messageId |-> messageId, currentUserId |-> currentUserId],
                  getMessage(messageId, currentUserId))
    /\ UNCHANGED <<store, now, client>>

callGetReactionUsers(messageId, emoji) ==
    /\ last' = Ok("getReactionUsers", [messageId |-> messageId, emoji |-> emoji],
                  getReactionUsers(messageId, emoji))
    /\ UNCHANGED <<store, now, client>>

NextViews ==
    \/ getOrCreateZone("doc_1", None)
    \/ threads = <<>> /\ addThread(1, None)
    \/ messages = <<>> /\ addComment(1, "u1", BodyPlain, None)
    \/ \E u \in ReactingUsers, e \in Emojis : addReaction(1, u, e)
    \/ \E u \in ReactingUsers, e \in Emojis : removeReaction(1, u, e)
    \/ \E v \in ViewerArgs : callGetMessage(1, v)
    \/ \E v \in ViewerArgs : callGetMessagesFor(1, None, None, None, v, None)
    \/ \E v \in ViewerArgs : callGetReactions(1, v)
    \/ \E e \in Emojis : callGetReactionUsers(1, e)

SpecViews == Init /\ [][NextViews]_vars

\* C39: in every state, for every message and viewer, the reaction summary
\* returned by getMessage, the one in the message's entry of getMessages and
\* the result of getReactions are the same list; and for every group of the
\* summary, getReactionUsers(message, emoji of the group) is the group's users
\* list.
C39_SummariesAgree ==
    \A m \in DOMAIN messages, v \in ViewerArgs :
        LET one == CHOOSE x \in getMessage(m, v) : TRUE
            page == getMessages(messages[m].threadId, None, None, None, v, Some(TRUE))
        IN  /\ getMessage(m, v) # None
            /\ one.reactions = getReactions(m, v)
            /\ \E k \in 1..Len(page.messages) : page.messages[k].message._id = m
            /\ \A k \in 1..Len(page.messages) :
                   page.messages[k].message._id = m
                       => /\ page.messages[k].reactions = one.reactions
                          /\ page.messages[k].message = one.message
            /\ \A k \in 1..Len(one.reactions) :
                   getReactionUsers(m, one.reactions[k].emoji) = one.reactions[k].users
            /\ \A e \in Emojis :
                   (\A k \in 1..Len(one.reactions) : one.reactions[k].emoji # e)
                       => getReactionUsers(m, e) = <<>>

\* getMessage was called by a viewer who is the second of two users that
\* reacted with the same emoji, and the store has not changed since
C39_Witness ==
    /\ last.op = "getMessage"
    /\ last.ret = getMessage(1, last.args.currentUserId)
    /\ \E x \in last.ret :
           /\ Len(x.reactions) = 1
           /\ x.reactions[1].count = 2
           /\ x.reactions[1].includesMe
           /\ Some(x.reactions[1].users[2]) = last.args.currentUserId

====
